---- MODULE Spec2Model ----
(***************************************************************************)
(* Model of the support-chat orchestrator of my_shop (Django app           *)
(* `assistant`): the chat_assistant request handler, the handoff request   *)
(* request_manager, the admin actions of ChatSessionAdmin, and the         *)
(* catalog fallback search of ProductSearchService.                        *)
(*                                                                         *)
(* The database tables are sequences of rows in insertion order (the       *)
(* primary key of a row is its index; rows are never deleted).  Each       *)
(* concurrently running handler is a process with a program counter whose  *)
(* steps are cut at its database reads and writes, so that the handlers    *)
(* interleave the way the web workers do.                                  *)
(***************************************************************************)
EXTENDS Integers, Sequences, FiniteSets, Bags, TLC

VARIABLES
    sessions,   \* table ChatSession: rows [session_id, status, manager]
    messages,   \* table ChatMessage: rows in creation (timestamp) order
    logs,       \* table AssistantLog: a bag of rows
    req,        \* chat_assistant invocations, one per slot
    hand,       \* the request_manager invocation
    adm,        \* per staff user: the admin view/action being run
    sf,         \* the search_with_fallback invocation
    catalog,    \* the catalog: the search calls it has valid products for
    sb,         \* the select_best_products invocation
    pb,         \* the pc_build branch of a chat_assistant invocation
    ps,         \* the product_search branch of a chat_assistant invocation
    gc,         \* the get_components_for_build invocation
    vp,         \* the _validate_products invocation
    br          \* the product_search branch run against a given catalog

vars == <<sessions, messages, logs, req, hand, adm, sf, catalog, sb, pb, ps, gc, vp, br>>

sessionVars == <<sessions, messages, logs, req, hand, adm>>

\* the state of the external services and of the functions run on their own
serviceVars == <<catalog, sb, pb, ps, gc, vp, br>>

-----------------------------------------------------------------------------
(* Bounds of the model *)


\* number of requests and admin actions started, of all kinds together
MaxOps == 4

\* longest pre-existing message history of a session (SpecHistory)
MaxStored == 12

-----------------------------------------------------------------------------
(* Values *)

\* Python None / SQL NULL
None == "None"

STATUS_CHOICES == {"active", "pending_manager", "with_manager", "closed"}

\* staff users of the admin site
Managers == {"m1"}

\* session identifiers a client may send
ClientIds == {"s1"}

\* values of uuid.uuid4(), in the order they are drawn
UuidPool == <<"u1", "u2", "u3", "u4">>

\* views.py: MAX_HISTORY_MESSAGES
MAX_HISTORY_MESSAGES == 10

\* chat_assistant request slots, each used once
Reqs == {1, 2}

\* Texts are sequences of characters; a fixed text of the code is a
\* one-element sequence holding its name.
T_ATTACHMENT == <<"image uploaded">>
T_HANDOFF_NOTICE == <<"manager requested notice">>
T_NO_PRODUCTS == <<"no products found">>
T_BUILD_MISSING == <<"build incomplete, category offer">>
T_BUILD_UNAVAILABLE == <<"build category unavailable">>
T_BUILD_INVALID == <<"no compatible build">>
T_FAQ == <<"faq passage">>
T_GENERATED == <<"generated text">>
T_MANAGER_TEXT == <<"manager text">>

\* requests a client may send: the message (before .strip()), whether a
\* file is attached and whether the file is an image, and what the payload
\* is: form data (with a file) or a JSON object; failing holds the types of
\* audit entries the audit table refuses while the request runs
ChatInputs ==
    { [raw |-> <<"h", "i", " ">>, has_file |-> FALSE, is_image |-> FALSE,
       payload |-> "object",
       failing |-> {}],
      [raw |-> <<"S", "k", "u", ":", " ", "4", "7">>, has_file |-> FALSE,
       is_image |-> FALSE, payload |-> "object",
       failing |-> {}],
      [raw |-> <<" ">>, has_file |-> FALSE, is_image |-> FALSE,
       payload |-> "object",
       failing |-> {}],
      [raw |-> <<" ">>, has_file |-> TRUE, is_image |-> TRUE,
       payload |-> "form", failing |-> {}] }

\* payloads json.loads or the handler's reading of the message fails on:
\* a body that is no JSON, JSON that is no object, an object whose message
\* is null or a number
MalformedPayloads == {"not_json", "not_object", "null_message", "number_message"}

MalformedInputs ==
    { [raw |-> <<>>, has_file |-> FALSE, is_image |-> FALSE, payload |-> k,
       failing |-> {}] :
        k \in MalformedPayloads }

-----------------------------------------------------------------------------
(* Text helpers *)

Min(a, b) == IF a <= b THEN a ELSE b

Take(s, n) == SubSeq(s, 1, Min(n, Len(s)))

Reverse(s) == [i \in 1..Len(s) |-> s[Len(s) + 1 - i]]

Spaces == {" ", "\t", "\n"}

Digits == {"0", "1", "2", "3", "4", "5", "6", "7", "8", "9"}

IsSpace(c) == c \in Spaces

IsDigit(c) == c \in Digits

\* str.lower() on the characters of the model's alphabet
Lower(c) ==
    CASE c = "S" -> "s"
      [] c = "K" -> "k"
      [] c = "U" -> "u"
      [] c = "H" -> "h"
      [] OTHER -> c

LowerText(s) == [i \in 1..Len(s) |-> Lower(s[i])]

\* str.strip()
Strip(s) ==
    LET keep == {i \in 1..Len(s) : ~IsSpace(s[i])}
    IN  IF keep = {} THEN <<>>
        ELSE LET lo == CHOOSE i \in keep : \A j \in keep : i <= j
                 hi == CHOOSE i \in keep : \A j \in keep : i >= j
             IN  SubSeq(s, lo, hi)

\* end of the longest run of characters of the class, starting at i
\* (i - 1 when s[i] is not in the class)
RunEnd(s, i, class) ==
    LET stops == {j \in i..Len(s) : s[j] \notin class}
    IN  IF stops = {} THEN Len(s)
        ELSE (CHOOSE j \in stops : \A k \in stops : j <= k) - 1

\* re.search(r'sku[:\s]*(\d+)', text.lower()): group 1, <<>> when no match
SkuSeps == {":"} \cup Spaces

SkuMatchAt(t, i) ==
    /\ i + 2 <= Len(t)
    /\ t[i] = "s" /\ t[i + 1] = "k" /\ t[i + 2] = "u"
    /\ LET d == RunEnd(t, i + 3, SkuSeps) + 1
       IN  d <= Len(t) /\ IsDigit(t[d])

ForcedSku(user_message) ==
    LET t == LowerText(user_message)
        starts == {i \in 1..Len(t) : SkuMatchAt(t, i)}
    IN  IF starts = {} THEN <<>>
        ELSE LET i == CHOOSE k \in starts : \A j \in starts : k <= j
                 d == RunEnd(t, i + 3, SkuSeps) + 1
             IN  Strip(SubSeq(t, d, RunEnd(t, d, Digits)))

-----------------------------------------------------------------------------
(* Rows *)

\* ChatSession.objects.create(session_id=...): the model's field defaults
NewSession(session_id) ==
    [session_id |-> session_id, status |-> "active", manager |-> None]

\* ChatMessage.save(): sender_type follows is_user
ChatMessageSave(row) ==
    IF row.is_user THEN [row EXCEPT !.sender_type = "user"]
    ELSE IF row.sender_type = "user" THEN [row EXCEPT !.sender_type = "bot"]
    ELSE row

\* ChatMessage.objects.create(...) with the model's field defaults
NewMessage(pk, text, is_user, sender_type, intent, attachment) ==
    ChatMessageSave([session |-> pk, message |-> text, is_user |-> is_user,
                     sender_type |-> sender_type, intent |-> intent,
                     attachment |-> attachment])

\* AssistantLog row written by log_event / AssistantLog.objects.create
NewLog(pk, log_type, severity) ==
    [session |-> pk, log_type |-> log_type, severity |-> severity,
     response_time_ms |-> FALSE]

\* the same with response_time_ms given
TimedLog(pk, log_type, severity) ==
    [NewLog(pk, log_type, severity) EXCEPT !.response_time_ms = TRUE]

\* the log table with one more row
Logged(table, row) == table (+) SetToBag({row})

\* variant: a log_event that lets the failure of the write out
LogEventUnguarded(table, row, failing) ==
    [table |-> IF row.log_type \in failing THEN table ELSE Logged(table, row),
     raised |-> row.log_type \in failing]

\* log_event, lines 26-58: the row is written unless the write fails; the
\* failure is caught and reported to the file log only
LogEvent(table, row, failing) ==
    [table |-> IF row.log_type \in failing THEN table ELSE Logged(table, row),
     raised |-> FALSE]

\* consecutive calls of log_event; an exception ends them
RECURSIVE Audited(_, _, _)
Audited(table, rows, failing) ==
    IF rows = <<>> THEN [table |-> table, raised |-> FALSE]
    ELSE LET one == LogEvent(table, Head(rows), failing)
         IN  IF one.raised THEN one
             ELSE Audited(one.table, Tail(rows), failing)

\* primary keys of the rows holding a session identifier
PksOf(session_id) ==
    {pk \in 1..Len(sessions) : sessions[pk].session_id = session_id}

\* session.messages.all().order_by('timestamp')
SessionMessages(pk) == SelectSeq(messages, LAMBDA m : m.session = pk)

\* str(uuid.uuid4()): a value no session holds yet
Uuid4 ==
    LET free == {i \in 1..Len(UuidPool) : PksOf(UuidPool[i]) = {}}
    IN  UuidPool[CHOOSE i \in free : \A j \in free : i <= j]

UuidAvailable == \E i \in 1..Len(UuidPool) : PksOf(UuidPool[i]) = {}

\* variant: a lookup that settles for any session
GetSessionAny(session_id) == IF sessions = <<>> THEN 0 ELSE 1

\* ChatSession.objects.get(session_id=...): the primary key found, 0 for
\* DoesNotExist, -1 for MultipleObjectsReturned
GetSession(session_id) ==
    LET found == PksOf(session_id)
    IN  IF found = {} THEN 0
        ELSE IF Cardinality(found) > 1 THEN -1
        ELSE CHOOSE pk \in found : TRUE

\* the in-memory copy of a row a handler holds before it has read one
NoRow == [session_id |-> None, status |-> None, manager |-> None]

RECURSIVE SumN(_)
SumN(S) ==
    IF S = {} THEN 0
    ELSE LET m == CHOOSE x \in S : TRUE IN adm[m].n + SumN(S \ {m})

\* requests and admin actions started so far
OpsRun == Cardinality({r \in Reqs : req[r].pc # "idle"}) + hand.n + SumN(Managers)

-----------------------------------------------------------------------------
(* request_manager (views.py): the client asks for a human agent *)

HandIdle == [pc |-> "idle", n |-> 0, session |-> 0, row |-> NoRow, code |-> 0]

\* identifiers a handoff request may carry (None: no session_id in the body)
HandoffIds == ClientIds \cup {UuidPool[1], None}

\* variant: a handoff request that adds no message to the chat
NoHandoffNotice(pk) == <<>>

\* session.status = 'pending_manager' on the in-memory row
HandoffRow(row) == [row EXCEPT !.status = "pending_manager"]

\* the system message request_manager adds to the chat
HandoffNotice(pk) ==
    <<NewMessage(pk, T_HANDOFF_NOTICE, FALSE, "bot", "manager_handoff", FALSE)>>

\* lines 603-619: read the body, look the session up
RequestManagerGet(session_id) ==
    /\ hand.pc = "idle"
    /\ OpsRun < MaxOps
    /\ LET pk == IF session_id = None THEN 0 ELSE GetSession(session_id)
       IN  hand' =
             IF session_id = None
             THEN [HandIdle EXCEPT !.n = hand.n + 1, !.code = 400]
             ELSE IF pk = 0
             THEN [HandIdle EXCEPT !.n = hand.n + 1, !.code = 404]
             ELSE IF pk < 0
             THEN [HandIdle EXCEPT !.n = hand.n + 1, !.code = 500]
             ELSE [pc |-> "loaded", n |-> hand.n + 1, session |-> pk,
                   row |-> sessions[pk], code |-> 0]
    /\ UNCHANGED <<sessions, messages, logs, req, adm, sf>>
    /\ UNCHANGED serviceVars

\* lines 621-646: save the row with the new status, log, add the notice
RequestManagerSave ==
    /\ hand.pc = "loaded"
    /\ sessions' = [sessions EXCEPT ![hand.session] = HandoffRow(hand.row)]
    /\ logs' = Logged(logs, NewLog(hand.session, "manager_handoff", "info"))
    /\ messages' = messages \o HandoffNotice(hand.session)
    /\ hand' = [hand EXCEPT !.pc = "idle", !.code = 200]
    /\ UNCHANGED <<req, adm, sf>>
    /\ UNCHANGED serviceVars

-----------------------------------------------------------------------------
(* ChatSessionAdmin (admin.py): what a staff user does to a session *)

AdmIdle ==
    [pc |-> "idle", op |-> None, n |-> 0, session |-> 0, row |-> NoRow,
     sel |-> {}]

\* the rows an admin action is applied to (a non-empty selection)
Selections == SUBSET (1..Len(sessions)) \ {{}}

\* message texts a staff user may post
ManagerTexts == {T_MANAGER_TEXT, <<" ">>}

\* variant: a pickup that sets the status only
PickupRowUnassigned(row, user) == [row EXCEPT !.status = "with_manager"]

\* status = 'with_manager', manager = request.user
PickupRow(row, user) ==
    [row EXCEPT !.status = "with_manager", !.manager = user]

AdmBegin(m, op, pk, sel) ==
    [pc |-> "idle", op |-> op, n |-> adm[m].n + 1, session |-> pk,
     row |-> IF pk = 0 THEN NoRow ELSE sessions[pk], sel |-> sel]

\* chat_view, lines 157-160: read the row; a session that is not pending is
\* only rendered
ChatViewGet(m, pk) ==
    /\ adm[m].pc = "idle"
    /\ OpsRun < MaxOps
    /\ pk \in 1..Len(sessions)
    /\ adm' = [adm EXCEPT ![m] =
                 [AdmBegin(m, "chat_view", pk, {}) EXCEPT !.pc =
                    IF sessions[pk].status = "pending_manager"
                    THEN "chat_view" ELSE "idle"]]
    /\ UNCHANGED <<sessions, messages, logs, req, hand, sf>>
    /\ UNCHANGED serviceVars

\* chat_view, lines 161-172: take the session and save the row
ChatViewSave(m) ==
    /\ adm[m].pc = "chat_view"
    /\ sessions' = [sessions EXCEPT ![adm[m].session] = PickupRow(adm[m].row, m)]
    /\ logs' = Logged(logs, NewLog(adm[m].session, "manager_handoff", "info"))
    /\ adm' = [adm EXCEPT ![m].pc = "idle"]
    /\ UNCHANGED <<messages, req, hand, sf>>
    /\ UNCHANGED serviceVars

\* send_message_view, lines 186-193: read the row; an empty text is refused
SendMessageGet(m, pk, text) ==
    /\ adm[m].pc = "idle"
    /\ OpsRun < MaxOps
    /\ pk \in 1..Len(sessions)
    /\ adm' = [adm EXCEPT ![m] =
                 [AdmBegin(m, "send_message_view", pk, {}) EXCEPT !.pc =
                    IF Strip(text) = <<>> THEN "idle" ELSE "send_message_view"]]
    /\ UNCHANGED <<sessions, messages, logs, req, hand, sf>>
    /\ UNCHANGED serviceVars

\* send_message_view, lines 195-215: add the message, log, and save the row
\* read at the start (session.save() writes every field)
SendMessageSave(m) ==
    /\ adm[m].pc = "send_message_view"
    /\ messages' = Append(messages,
          NewMessage(adm[m].session, T_MANAGER_TEXT, FALSE, "manager", "", FALSE))
    /\ logs' = Logged(logs, NewLog(adm[m].session, "manager_response", "info"))
    /\ sessions' = [sessions EXCEPT ![adm[m].session] = adm[m].row]
    /\ adm' = [adm EXCEPT ![m].pc = "idle"]
    /\ UNCHANGED <<req, hand, sf>>
    /\ UNCHANGED serviceVars

\* mark_as_closed: queryset.update(status='closed')
ClosedRow(row) == [row EXCEPT !.status = "closed"]

MarkAsClosed(m, sel) ==
    /\ adm[m].pc = "idle"
    /\ OpsRun < MaxOps
    /\ sel \in Selections
    /\ sessions' = [pk \in 1..Len(sessions) |->
                      IF pk \in sel THEN ClosedRow(sessions[pk]) ELSE sessions[pk]]
    /\ adm' = [adm EXCEPT ![m] = AdmBegin(m, "mark_as_closed", 0, sel)]
    /\ UNCHANGED <<messages, logs, req, hand, sf>>
    /\ UNCHANGED serviceVars

\* assign_to_me: queryset.filter(status='pending_manager').update(...)
AssignToMe(m, sel) ==
    /\ adm[m].pc = "idle"
    /\ OpsRun < MaxOps
    /\ sel \in Selections
    /\ sessions' = [pk \in 1..Len(sessions) |->
                      IF pk \in sel /\ sessions[pk].status = "pending_manager"
                      THEN PickupRow(sessions[pk], m) ELSE sessions[pk]]
    /\ adm' = [adm EXCEPT ![m] = AdmBegin(m, "assign_to_me", 0, sel)]
    /\ UNCHANGED <<messages, logs, req, hand, sf>>
    /\ UNCHANGED serviceVars

-----------------------------------------------------------------------------
(* chat_assistant (views.py): one inbound customer message *)

\* the reply of the classification backend to analyze_query: its kind, and
\* of a JSON object the intent and the types of two of its fields
Classified(kind, intent, search_query, build_tier) ==
    [kind |-> kind, intent |-> intent, search_query |-> search_query,
     build_tier |-> build_tier]

\* no classification was made
NoClassifier == Classified("", "", "", "")

NoResp ==
    [code |-> 0, success |-> FALSE, response |-> <<>>, products |-> 0,
     intent |-> "", session_id |-> None, with_manager |-> FALSE]

\* a request slot: the handler's local variables.  calls is the set of
\* collaborators the request has invoked; nUser and nBot count the
\* ChatMessage rows it has created.
ReqIdle ==
    [pc |-> "idle", session_id |-> None, message |-> <<>>, has_file |-> FALSE,
     is_image |-> FALSE, payload |-> "", failing |-> {}, session |-> 0,
     status |-> None,
     context |-> <<>>, classifier |-> NoClassifier,
     calls |-> {}, nUser |-> 0, nBot |-> 0, resp |-> NoResp]

\* the error responses of the handler
ErrorResp(code) == [NoResp EXCEPT !.code = code]

\* variant: the manager-mode test reading the wrong status
IsManagerModePending(status) == status = "pending_manager"

\* line 110: is the session in manager mode
IsManagerMode(status) == status = "with_manager"

\* variant: the history left in the order of the query, newest first
HistoryNewestFirst(pk) ==
    LET db_messages == Take(Reverse(SessionMessages(pk)), MAX_HISTORY_MESSAGES)
    IN  [i \in 1..Len(db_messages) |->
           [role |-> IF db_messages[i].is_user THEN "user" ELSE "assistant",
            content |-> db_messages[i].message]]

\* lines 149-161: the last MAX_HISTORY_MESSAGES messages of the session,
\* newest first, read back oldest first, then the current message
History(pk) ==
    LET db_messages == Take(Reverse(SessionMessages(pk)), MAX_HISTORY_MESSAGES)
        reversed == Reverse(db_messages)
    IN  [i \in 1..Len(reversed) |->
           [role |-> IF reversed[i].is_user THEN "user" ELSE "assistant",
            content |-> reversed[i].message]]

CurrentContext(pk, user_message) ==
    History(pk) \o <<[role |-> "user", content |-> user_message]>>

\* variant: manager mode that also stores an automatic reply
ManagerModeRowsWithReply(pk, user_message) ==
    <<NewMessage(pk, user_message, TRUE, "user", "", FALSE),
      NewMessage(pk, T_GENERATED, FALSE, "bot", "general", FALSE)>>

\* lines 113-118: the only row written in manager mode
ManagerModeRows(pk, user_message) ==
    <<NewMessage(pk, user_message, TRUE, "user", "", FALSE)>>

\* lines 122-130: the reply in manager mode
ManagerModeResp(session_id) ==
    [code |-> 200, success |-> TRUE, response |-> <<>>, products |-> 0,
     intent |-> "with_manager", session_id |-> session_id,
     with_manager |-> TRUE]

\* lines 168-200: the customer's message row
CustomerRow(pk, user_message, has_file) ==
    IF has_file
    THEN NewMessage(pk, IF user_message = <<>> THEN T_ATTACHMENT ELSE user_message,
                    TRUE, "user", "", TRUE)
    ELSE NewMessage(pk, user_message, TRUE, "user", "", FALSE)

CountRows(rows, is_user) ==
    Cardinality({i \in 1..Len(rows) : rows[i].is_user = is_user})

\* variant: a handler that does not store what the customer wrote
ReceivedNoRows(slot, pk, status) == <<>>

\* lines 110-200: what the handler writes once it holds the session row
ReceivedRows(slot, pk, status) ==
    IF IsManagerMode(status)
    THEN ManagerModeRows(pk, slot.message)
    ELSE <<CustomerRow(pk, slot.message, slot.has_file)>>

\* lines 110-200: the handler's locals after that; in manager mode it has
\* answered, otherwise it holds the context for the classifier
Received(slot, pk, row) ==
    LET rows == ReceivedRows(slot, pk, row.status)
        counted == [slot EXCEPT !.session = pk, !.status = row.status,
                                !.nUser = CountRows(rows, TRUE),
                                !.nBot = CountRows(rows, FALSE)]
    IN  IF IsManagerMode(row.status)
        THEN [counted EXCEPT !.pc = "done",
                             !.resp = ManagerModeResp(row.session_id)]
        ELSE [counted EXCEPT !.pc = "saved",
                             !.context = CurrentContext(pk, slot.message),
                             !.calls = IF slot.has_file /\ slot.is_image
                                       THEN {"analyze_image"} ELSE {}]

\* What the classification backend does for analyze_query: it raises (an
\* error, a timeout), answers text that is no JSON, a JSON value that is no
\* object, or a JSON object.  Of the object the model keeps the intent (or
\* that it has none) and the types of the fields chat_assistant calls str
\* methods on (Classified, above).
FieldTypes == {"str", "null", "number", "missing"}

ClassifierReplies ==
    {Classified(k, "", "", "") : k \in {"raises", "text", "value"}}
      \cup {Classified("object", "product_search", t, "missing") : t \in FieldTypes}
      \cup {Classified("object", i, "missing", t) :
              i \in {"pc_budget_ask", "pc_build"}, t \in FieldTypes}
      \cup {Classified("object", i, "missing", "missing") :
              i \in {"faq", "general", "other", "missing"}}

\* gpt_service.py 97-103: the analysis returned when the backend fails
DEFAULT_ANALYSIS == Classified("object", "general", "str", "missing")

\* variant: a classifier whose failure is handed on to the caller
AnalyzeQueryUnguarded(reply) ==
    IF reply.kind \in {"raises", "text"} THEN Classified("value", "", "", "")
    ELSE reply

\* GPTService.analyze_query (gpt_service.py 83-103): the parsed JSON value,
\* or the default analysis on any exception (json.loads included)
AnalyzeQuery(reply) ==
    IF reply.kind \in {"raises", "text"} THEN DEFAULT_ANALYSIS ELSE reply

\* line 215: analysis.get("intent", "general")
Intent(analysis) ==
    IF analysis.intent = "missing" THEN "general" ELSE analysis.intent

\* What the dispatch on the intent (lines 222-445) comes to: the intent,
\* the reply text, the products returned (0 for none, 1 for a list of
\* products, 6 for a build) and the collaborators invoked.  The
\* collaborators are external, so every branch the code can take is an
\* outcome.
Outcome(intent, text, products, calls) ==
    [intent |-> intent, response_text |-> text, products |-> products,
     calls |-> calls, raised |-> FALSE, classifier |-> NoClassifier]

\* an exception that reaches the handler's except clause
Raised(calls) ==
    [intent |-> "", response_text |-> <<>>, products |-> 0, calls |-> calls,
     raised |-> TRUE, classifier |-> NoClassifier]

\* what a generate_* function returns as a str: the content of the
\* completion, which may be the empty string, or its fixed text when the
\* call raises (T_GENERATED stands for every text that is not empty)
Completions == {T_GENERATED, <<>>}

\* a branch whose reply is generated: the text is returned as it is; a
\* completion without content (None) fails in ChatMessage.objects.create
Generated(intent, products, calls) ==
    {Outcome(intent, text, products, calls) : text \in Completions}
      \cup {Raised(calls)}

\* lines 203-211, 233-285: a direct SKU request, the classifier is bypassed
SkuOutcomes ==
    Generated("product_search", 1,
              {"get_by_sku", "select_best_products", "generate_product_response"})
      \cup {Outcome("product_search", T_NO_PRODUCTS, 0, {"get_by_sku"})}

\* lines 223-285: the classified product search
SearchOutcomes ==
    Generated("product_search", 1,
              {"analyze_query", "search_with_fallback", "select_best_products",
               "generate_product_response"})
      \cup {Outcome("product_search", T_NO_PRODUCTS, 0,
                    {"analyze_query", "search_with_fallback"})}

\* lines 303-425: the PC build
BuildOutcomes ==
    Generated("pc_build", 6,
              {"analyze_query", "get_components_for_build",
               "select_pc_components", "get_by_sku", "generate_pc_build_response"})
      \cup
    { Outcome("pc_build", T_BUILD_MISSING, 1,
              {"analyze_query", "get_components_for_build", "search",
               "select_best_products", "generate_product_response"}),
      Outcome("pc_build", T_BUILD_UNAVAILABLE, 0,
              {"analyze_query", "get_components_for_build", "search"}),
      Outcome("pc_build", T_BUILD_INVALID, 0,
              {"analyze_query", "get_components_for_build", "select_pc_components",
               "get_by_sku"}),
      \* lines 357-360: a text + a completion without content raises
      Raised({"analyze_query", "get_components_for_build", "search",
              "select_best_products", "generate_product_response"}),
      \* lines 391-392: a selection that is a JSON list of the required
      \* categories has no .items()
      Raised({"analyze_query", "get_components_for_build",
              "select_pc_components"}) }

\* lines 428-441: the FAQ
FaqOutcomes ==
    Generated("faq", 0,
              {"analyze_query", "find_relevant_faq", "generate_faq_response"})
      \cup {Outcome("faq", T_FAQ, 0, {"analyze_query", "find_relevant_faq"})}

\* lines 215-445: the branch taken for an analysis.  analysis.get raises on
\* a value that is no object, .strip() on a search_query and .lower() on a
\* build_tier that is no str
Dispatch(analysis) ==
    IF analysis.kind = "value" THEN {Raised({"analyze_query"})}
    ELSE CASE Intent(analysis) = "product_search" ->
                IF analysis.search_query \in {"null", "number"}
                THEN {Raised({"analyze_query"})} ELSE SearchOutcomes
           [] Intent(analysis) = "pc_budget_ask" ->
                Generated("pc_budget_ask", 0,
                          {"analyze_query", "generate_budget_request"})
           [] Intent(analysis) = "pc_build" ->
                IF analysis.build_tier \in {"null", "number"}
                THEN {Raised({"analyze_query"})} ELSE BuildOutcomes
           [] Intent(analysis) = "faq" -> FaqOutcomes
           [] OTHER ->
                Generated(Intent(analysis), 0,
                          {"analyze_query", "generate_general_response"})

\* lines 213-445: analyze_query, then one branch per intent
ClassifiedOutcomes ==
    UNION { {[o EXCEPT !.classifier = reply] : o \in Dispatch(AnalyzeQuery(reply))} :
              reply \in ClassifierReplies }

Outcomes(user_message) ==
    IF ForcedSku(user_message) # <<>> THEN SkuOutcomes ELSE ClassifiedOutcomes

\* one outcome per way a request can end (answered with products after a
\* SKU lookup, answered with products after classification, failed at the
\* analysis): what the specification of the whole service draws the replies
\* from
SampleOutcomes ==
    {o \in SkuOutcomes \cup ClassifiedOutcomes :
        \/ o.raised /\ o.classifier.kind = "value"
        \/ /\ ~o.raised /\ o.intent = "product_search" /\ o.products > 0
           /\ o.response_text = T_GENERATED
           /\ o.classifier.search_query \in {"", "str"}}

\* variant: a reply whose flag is set for a session with a manager only
ChatRespManagerOnly(slot, outcome) ==
    [code |-> 200, success |-> TRUE, response |-> outcome.response_text,
     products |-> outcome.products, intent |-> outcome.intent,
     session_id |-> sessions[slot.session].session_id,
     with_manager |-> slot.status = "with_manager"]

\* lines 483-490: the reply of a bot-handled request
ChatResp(slot, outcome) ==
    [code |-> 200, success |-> TRUE, response |-> outcome.response_text,
     products |-> outcome.products, intent |-> outcome.intent,
     session_id |-> sessions[slot.session].session_id,
     with_manager |-> slot.status \in {"pending_manager", "with_manager"}]

\* variant: a session table without the unique constraint
NoUniqueViolation(session_id) == FALSE

\* the unique constraint on ChatSession.session_id (models.py)
UniqueViolation(session_id) == PksOf(session_id) # {}

\* lines 75-85: the request as the handler reads it
Read(input, session_id) ==
    [ReqIdle EXCEPT !.session_id = session_id, !.message = Strip(input.raw),
                    !.has_file = input.has_file, !.is_image = input.is_image,
                    !.payload = input.payload, !.failing = input.failing]

\* lines 83-85 and 492-522: json.loads raises JSONDecodeError on a body that
\* is no JSON (answered 400); data.get and .strip() raise AttributeError on
\* JSON that is no object and on a message that is no str (answered 500)
PayloadError(payload) ==
    CASE payload = "not_json" -> 400
      [] payload \in MalformedPayloads \ {"not_json"} -> 500
      [] OTHER -> 0

\* lines 75-200: read the request, refuse an unreadable or empty one (no
\* session is held yet, so nothing is logged), look the session up
\* (a request without an identifier creates a session under a fresh uuid),
\* log the question and store the customer's message
ChatGet(r, input, session_id) ==
    /\ req[r].pc = "idle"
    /\ r > 1 => req[r - 1].pc # "idle"
    /\ OpsRun < MaxOps
    /\ session_id = None => UuidAvailable
    /\ LET slot == Read(input, session_id)
           pk == IF session_id = None THEN 0 ELSE GetSession(session_id)
           new == Len(sessions) + 1
       IN  IF PayloadError(input.payload) # 0
           THEN /\ req' = [req EXCEPT ![r] =
                             [ReqIdle EXCEPT !.pc = "done",
                                             !.payload = input.payload,
                                             !.resp = ErrorResp(PayloadError(input.payload))]]
                /\ UNCHANGED <<sessions, messages, logs>>
           ELSE IF slot.message = <<>> /\ ~slot.has_file
           THEN /\ req' = [req EXCEPT ![r] =
                             [ReqIdle EXCEPT !.pc = "done",
                                             !.payload = input.payload,
                                             !.resp = ErrorResp(400)]]
                /\ UNCHANGED <<sessions, messages, logs>>
           ELSE IF session_id = None
           THEN LET audit == Audited(logs, <<NewLog(new, "session_start", "info"),
                                               NewLog(new, "user_question", "info")>>,
                                     slot.failing)
                IN  /\ sessions' = Append(sessions, NewSession(Uuid4))
                    /\ logs' = audit.table
                    /\ IF audit.raised
                       THEN /\ messages' = messages
                            /\ req' = [req EXCEPT ![r] =
                                         [slot EXCEPT !.pc = "done",
                                                      !.resp = ErrorResp(500)]]
                       ELSE /\ messages' = messages \o ReceivedRows(slot, new, "active")
                            /\ req' = [req EXCEPT ![r] =
                                         Received(slot, new, NewSession(Uuid4))]
           ELSE IF pk > 0
           THEN LET audit == Audited(logs, <<NewLog(pk, "user_question", "info")>>,
                                     slot.failing)
                IN  /\ logs' = audit.table
                    /\ IF audit.raised
                       THEN /\ messages' = messages
                            /\ req' = [req EXCEPT ![r] =
                                         [slot EXCEPT !.pc = "done",
                                                      !.resp = ErrorResp(500)]]
                       ELSE /\ messages' = messages
                                             \o ReceivedRows(slot, pk, sessions[pk].status)
                            /\ req' = [req EXCEPT ![r] =
                                         Received(slot, pk, sessions[pk])]
                    /\ UNCHANGED sessions
           ELSE IF pk = 0
           THEN /\ req' = [req EXCEPT ![r] = [slot EXCEPT !.pc = "create"]]
                /\ UNCHANGED <<sessions, messages, logs>>
           ELSE /\ req' = [req EXCEPT ![r] =
                             [slot EXCEPT !.pc = "done", !.resp = ErrorResp(500)]]
                /\ UNCHANGED <<sessions, messages, logs>>
    /\ UNCHANGED <<hand, adm, sf>>
    /\ UNCHANGED serviceVars

\* lines 99-200: DoesNotExist, so create the session and go on; the insert
\* fails on the unique constraint when another request has created the
\* session meanwhile, and the handler answers 500 with no session to log against
ChatCreate(r) ==
    /\ req[r].pc = "create"
    /\ LET new == Len(sessions) + 1
           row == NewSession(req[r].session_id)
       IN  IF UniqueViolation(req[r].session_id)
           THEN /\ req' = [req EXCEPT ![r].pc = "done", ![r].resp = ErrorResp(500)]
                /\ UNCHANGED <<sessions, messages, logs>>
           ELSE LET audit == Audited(logs, <<NewLog(new, "session_start", "info"),
                                               NewLog(new, "user_question", "info")>>,
                                     req[r].failing)
                IN  /\ sessions' = Append(sessions, row)
                    /\ logs' = audit.table
                    /\ IF audit.raised
                       THEN /\ messages' = messages
                            /\ req' = [req EXCEPT ![r].pc = "done",
                                                  ![r].resp = ErrorResp(500)]
                       ELSE /\ messages' = messages
                                             \o ReceivedRows(req[r], new, row.status)
                            /\ req' = [req EXCEPT ![r] = Received(req[r], new, row)]
    /\ UNCHANGED <<hand, adm, sf>>
    /\ UNCHANGED serviceVars

\* variant: a handler that answers a fault without recording it
LoggedNoError(table, pk) == table

\* lines 499-520: the fault is recorded against the session held, with the
\* time elapsed
LoggedError(table, pk) == Logged(table, TimedLog(pk, "error", "error"))

\* lines 203-490 and 499-522: classify, dispatch, then store the bot's reply
\* and answer; an exception is logged against the session and answered 500
ChatReply(r, outcome) ==
    /\ req[r].pc = "saved"
    /\ outcome \in Outcomes(req[r].message)
    /\ IF outcome.raised
       THEN /\ logs' = IF "error" \in req[r].failing THEN logs
                       ELSE LoggedError(logs, req[r].session)
            /\ req' = [req EXCEPT ![r].pc = "done",
                                  ![r].calls = req[r].calls \cup outcome.calls,
                                  ![r].classifier = outcome.classifier,
                                  ![r].resp = ErrorResp(500)]
            /\ UNCHANGED messages
       ELSE LET audit == Audited(logs, <<TimedLog(req[r].session, "bot_response",
                                                  "info")>>, req[r].failing)
            IN  /\ messages' = Append(messages,
                      NewMessage(req[r].session, outcome.response_text, FALSE,
                                 "bot", outcome.intent, FALSE))
                /\ logs' = audit.table
                /\ req' = [req EXCEPT ![r].pc = "done",
                                      ![r].calls = req[r].calls \cup outcome.calls,
                                      ![r].classifier = outcome.classifier,
                                      ![r].nBot = req[r].nBot + 1,
                                      ![r].resp = IF audit.raised THEN ErrorResp(500)
                                                  ELSE ChatResp(req[r], outcome)]
    /\ UNCHANGED <<sessions, hand, adm, sf>>
    /\ UNCHANGED serviceVars

-----------------------------------------------------------------------------
(* ProductSearchService (product_search.py): the catalog client *)

\* records the catalog API may return
P_STOCKED == [sku |-> "47", name |-> "rtx 40", credit |-> 100, stock |-> 3]
P_SOLD_OUT == [sku |-> "48", name |-> "rtx 50", credit |-> 300, stock |-> 0]
P_NAMELESS == [sku |-> "49", name |-> "", credit |-> 50, stock |-> 1]

\* the ways one HTTP call to the catalog fails: requests.Timeout, another
\* requests.RequestException (no connection), raise_for_status() on a
\* status that is no success, response.json() on a body that is no JSON
ApiErrors == {"timeout", "network", "status", "body"}

\* a call answered with a list of records
Answered(products) == [ok |-> TRUE, error |-> "", products |-> products]

\* what one HTTP call to the catalog comes to: a failure or a list of
\* records
ApiResponses ==
    { [ok |-> FALSE, error |-> e, products |-> <<>>] : e \in ApiErrors }
      \cup { Answered(<<>>), Answered(<<P_NAMELESS>>), Answered(<<P_STOCKED>>),
             Answered(<<P_SOLD_OUT, P_NAMELESS, P_STOCKED>>) }

\* _validate_products: records without a sku or a name are dropped
ValidateProducts(products) ==
    SelectSeq(products, LAMBDA p : p.sku # "" /\ p.name # "")

\* variant: a search that answers from an earlier result when the call
\* fails
SearchStale(response) ==
    IF response.ok THEN ValidateProducts(response.products) ELSE <<P_STOCKED>>

\* search: the validated records of the response, [] on any failure
Search(response) ==
    IF response.ok THEN ValidateProducts(response.products) ELSE <<>>

\* str.split(): the maximal runs of non-space characters
RECURSIVE Split(_)
Split(s) ==
    LET t == Strip(s)
    IN  IF t = <<>> THEN <<>>
        ELSE LET e == RunEnd(t, 1, {t[j] : j \in 1..Len(t)} \ Spaces)
             IN  <<SubSeq(t, 1, e)>> \o Split(SubSeq(t, e + 1, Len(t)))

\* queries, categories and budgets search_with_fallback is called with
SearchQueries ==
    { <<>>,
      <<"r", "t", "x">>,
      <<"r", "t", "x", " ", "4", "0", "9", "0">>,
      <<"a", "b", " ", "x", " ", "r", "t", "x">>,
      <<"a", "b", " ", "c", "d">> }

SearchCategories == {"", "gpu"}

\* an optional number is the set of its values: {} is None
SearchBudgets == {{}, {100}}

SfIdle ==
    [pc |-> "idle", query |-> <<>>, category |-> "", budget |-> {}, word |-> 0,
     trace |-> <<>>, result |-> <<>>]

\* the parameters of the catalog call of each strategy (lines 158, 165, 172,
\* 182)
StrategyCall(s) ==
    CASE s.pc = "strategy1" ->
           [strategy |-> 1, query |-> s.query, category |-> s.category,
            max_credit |-> s.budget]
      [] s.pc = "strategy2" ->
           [strategy |-> 2, query |-> <<>>, category |-> s.category,
            max_credit |-> s.budget]
      [] s.pc = "strategy3" ->
           [strategy |-> 3, query |-> s.query, category |-> "",
            max_credit |-> s.budget]
      [] OTHER ->
           [strategy |-> 4, query |-> Split(s.query)[s.word],
            category |-> s.category, max_credit |-> {}]

\* line 181: the next word of the query, after word w, that is searched
NextWord(query, w) ==
    LET words == Split(query)
        long == {i \in (w + 1)..Len(words) : Len(words[i]) >= 3}
    IN  IF long = {} THEN 0 ELSE CHOOSE i \in long : \A j \in long : i <= j

\* lines 163-188: where the control goes when a strategy found nothing
AfterStrategy3(s) ==
    IF s.query # <<>> /\ Len(Split(s.query)) > 1 /\ NextWord(s.query, 0) > 0
    THEN [s EXCEPT !.pc = "strategy4", !.word = NextWord(s.query, 0)]
    ELSE [s EXCEPT !.pc = "done"]

AfterStrategy2(s) ==
    IF s.query # <<>> THEN [s EXCEPT !.pc = "strategy3"] ELSE AfterStrategy3(s)

AfterStrategy1(s) ==
    IF s.category # "" THEN [s EXCEPT !.pc = "strategy2"] ELSE AfterStrategy2(s)

AfterStrategy4(s) ==
    IF NextWord(s.query, s.word) > 0
    THEN [s EXCEPT !.word = NextWord(s.query, s.word)]
    ELSE [s EXCEPT !.pc = "done"]

AfterEmpty(s) ==
    CASE s.pc = "strategy1" -> AfterStrategy1(s)
      [] s.pc = "strategy2" -> AfterStrategy2(s)
      [] s.pc = "strategy3" -> AfterStrategy3(s)
      [] OTHER -> AfterStrategy4(s)

\* variant: a strategy that found products keeps them and falls through
FallsThrough(s, products) == AfterEmpty([s EXCEPT !.result = products])

\* lines 159-161 (and the like): a strategy that found products returns them
Returned(s, products) == [s EXCEPT !.pc = "done", !.result = products]

\* one strategy: the catalog call, then return or fall through
Attempt(s, response) ==
    LET products == Search(response)
        called == [s EXCEPT !.trace =
                     Append(s.trace, [call |-> StrategyCall(s), products |-> products])]
    IN  IF products # <<>> THEN Returned(called, products) ELSE AfterEmpty(called)

\* line 144: the call
SearchWithFallback(query, category, budget) ==
    /\ sf.pc = "idle"
    /\ sf' = [SfIdle EXCEPT !.pc = "strategy1", !.query = query,
                            !.category = category, !.budget = budget]
    /\ UNCHANGED sessionVars
    /\ UNCHANGED serviceVars

\* lines 157-161
Strategy1(response) ==
    /\ sf.pc = "strategy1"
    /\ sf' = Attempt(sf, response)
    /\ UNCHANGED sessionVars
    /\ UNCHANGED serviceVars

\* lines 163-168
Strategy2(response) ==
    /\ sf.pc = "strategy2"
    /\ sf' = Attempt(sf, response)
    /\ UNCHANGED sessionVars
    /\ UNCHANGED serviceVars

\* lines 170-175
Strategy3(response) ==
    /\ sf.pc = "strategy3"
    /\ sf' = Attempt(sf, response)
    /\ UNCHANGED sessionVars
    /\ UNCHANGED serviceVars

\* lines 177-185
Strategy4(response) ==
    /\ sf.pc = "strategy4"
    /\ sf' = Attempt(sf, response)
    /\ UNCHANGED sessionVars
    /\ UNCHANGED serviceVars

-----------------------------------------------------------------------------
(* GPTService.select_best_products (gpt_service.py): the product selector *)

\* longest candidate list handed to the selector
MaxProducts == 7

\* longest SKU list the ranking collaborator emits, of the short ones
MaxEmitted == 3

\* SKUs of the candidates, and a SKU no candidate has
SelectorSkus == <<"41", "42", "43", "44", "45", "46", "47", "48", "49">>

UNKNOWN_SKU == "99"

Candidate(i) ==
    [sku |-> SelectorSkus[i], name |-> "item", credit |-> 100 * i,
     stock |-> i % 3]

\* candidate lists: the first n candidates, and a list in which a SKU
\* occurs twice
CandidateLists ==
    {[i \in 1..n |-> Candidate(i)] : n \in 0..MaxProducts}
      \cup {<<Candidate(1), Candidate(2), [Candidate(3) EXCEPT !.sku = "41"]>>}

RECURSIVE SeqsUpTo(_, _)
SeqsUpTo(S, n) ==
    IF n = 0 THEN {<<>>}
    ELSE LET shorter == SeqsUpTo(S, n - 1)
         IN  shorter \cup {Append(q, x) : q \in shorter, x \in S}

\* what the ranking collaborator does: it raises, or its text is not JSON,
\* or is JSON but no list, or is a JSON list (read as strings)
SelectorReplies ==
    {[kind |-> k, skus |-> <<>>] : k \in {"raises", "text", "object"}}
      \cup {[kind |-> "list", skus |-> q] :
              q \in SeqsUpTo({"41", "43", UNKNOWN_SKU}, MaxEmitted)
                      \cup {<<"41", "42", "43", "44", "45", "46">>}}

\* lines 444-456: selected_skus
SelectedSkus(reply) == IF reply.kind = "list" THEN reply.skus ELSE <<>>

\* line 460: products_by_sku[sku], the last candidate with the SKU
ProductBySku(products, sku) ==
    LET at == {i \in 1..Len(products) : products[i].sku = sku}
    IN  products[CHOOSE i \in at : \A j \in at : i >= j]

\* variant: the chosen candidates in the order of the candidate list
SelectedInListOrder(products, selected_skus) ==
    SelectSeq(products,
              LAMBDA p : \E i \in 1..Len(selected_skus) : selected_skus[i] = p.sku)

\* lines 463-468: the candidates named by the collaborator, in its order
SelectedProducts(products, selected_skus) ==
    LET known == SelectSeq(selected_skus,
                   LAMBDA sku : \E i \in 1..Len(products) : products[i].sku = sku)
    IN  [i \in 1..Len(known) |-> ProductBySku(products, known[i])]

\* variant: no fallback when nothing was selected
NoSelectFallback(products, selected_products) == selected_products

\* lines 471-473: the first 5 candidates when nothing was selected
SelectFallback(products, selected_products) ==
    IF selected_products = <<>> THEN Take(products, 5) ELSE selected_products

\* lines 389-481: the result for a non-empty candidate list
SelectBest(products, reply) ==
    IF reply.kind = "raises" THEN Take(products, 5)
    ELSE SelectFallback(products,
                        SelectedProducts(products, SelectedSkus(reply)))

SbIdle ==
    [pc |-> "idle", products |-> <<>>, reply |-> [kind |-> "", skus |-> <<>>],
     result |-> <<>>]

\* lines 379-387: the call; an empty list is answered at once
SelectBestProducts(products) ==
    /\ sb.pc = "idle"
    /\ sb' = [SbIdle EXCEPT !.products = products,
                            !.pc = IF products = <<>> THEN "done" ELSE "asked"]
    /\ UNCHANGED <<sessionVars, sf, catalog, pb, ps, gc, vp, br>>

\* lines 389-481: the collaborator's reply and the selection
SelectBestReturn(reply) ==
    /\ sb.pc = "asked"
    /\ sb' = [sb EXCEPT !.pc = "done", !.reply = reply,
                        !.result = SelectBest(sb.products, reply)]
    /\ UNCHANGED <<sessionVars, sf, catalog, pb, ps, gc, vp, br>>

-----------------------------------------------------------------------------
(* chat_assistant, intent pc_build (views.py 303-425): the build assembler *)

\* most selected SKUs of one build that do not resolve to an affordable
\* product in stock
MaxFaults == 2

\* lines 319-324: required_categories
BASE_CATEGORIES == <<"cpu", "gpu", "motherboard", "case", "psu", "ssd">>

PERIPHERAL_CATEGORIES == <<"monitor", "mouse", "keyboard">>

RequiredCategories(include_peripherals) ==
    IF include_peripherals THEN BASE_CATEGORIES \o PERIPHERAL_CATEGORIES
    ELSE BASE_CATEGORIES

\* a key of the collaborator's JSON that is no category
EXTRA_KEY == "total_price"

Range(q) == {q[i] : i \in 1..Len(q)}

\* a product of the catalog that costs more than any budget of the model
P_COSTLY == [sku |-> "50", name |-> "rtx 90", credit |-> 2000, stock |-> 1]

\* budgets of a build request ({} is None)
BuildBudgets == {{}, {1000}}

\* SKUs the selection may hold for a category
BuildSkus == {"47", "48", "50", UNKNOWN_SKU, ""}

\* what the catalog may answer to a lookup by SKU
LookupResponses ==
    ApiResponses \cup {Answered(<<P_COSTLY, P_STOCKED>>)}

\* variant: a lookup that takes the first product of the search
GetBySkuAny(sku, response) ==
    IF sku = "" THEN <<>> ELSE Take(Search(response), 1)

\* ProductSearchService.get_by_sku: the first product of the search whose
\* SKU is the one asked for; <<>> is None
GetBySku(sku, response) ==
    IF sku = "" THEN <<>>
    ELSE Take(SelectSeq(Search(response), LAMBDA p : p.sku = sku), 1)

\* ProductSearchService.filter_in_stock
FilterInStock(products) == SelectSeq(products, LAMBDA p : p.stock > 0)

\* what the selection collaborator does: it raises, answers text that is
\* no JSON, a JSON object with the given keys, or a JSON list of the given
\* strings
BuildReplies(required) ==
    {[kind |-> k, keys |-> <<>>] : k \in {"raises", "text"}}
      \cup {[kind |-> "object", keys |-> keys] :
              keys \in {required, Append(required, EXTRA_KEY),
                        SubSeq(required, 2, Len(required)),
                        Append(SubSeq(required, 2, Len(required)), EXTRA_KEY),
                        <<>>}}
      \cup {[kind |-> "list", keys |-> keys] :
              keys \in {required, Append(required, EXTRA_KEY)}}

\* variant: the selection returned as the collaborator gave it
SelectPcComponentsUnchecked(reply, required) == reply.keys

\* variant: a validation that looks for the last required category only
SelectPcComponentsLastOnly(reply, required) ==
    IF reply.kind \in {"object", "list"}
         /\ required[Len(required)] \in Range(reply.keys)
    THEN reply.keys ELSE <<>>

\* GPTService.select_pc_components, lines 300-322: the keys of the
\* selection returned; {} unless every required category is a key
SelectPcComponents(reply, required) ==
    IF reply.kind \in {"object", "list"}
         /\ Range(required) \subseteq Range(reply.keys)
    THEN reply.keys ELSE <<>>

\* what the ranking collaborator may do with the fallback products
FallbackReplies ==
    {[kind |-> "raises", skus |-> <<>>], [kind |-> "text", skus |-> <<>>],
     [kind |-> "list", skus |-> <<"48", "47">>],
     [kind |-> "list", skus |-> <<UNKNOWN_SKU>>],
     [kind |-> "list", skus |-> <<"47", "48", "47", "48", "47", "48">>]}

RECURSIVE SumCredit(_)
SumCredit(products) ==
    IF products = <<>> THEN 0
    ELSE products[1].credit + SumCredit(Tail(products))

\* lines 328-331: the required categories without an in-stock candidate
MissingComponents(required, available) ==
    SelectSeq(required, LAMBDA c : c \notin available)

\* variant: the last missing category
LastMissing(missing_components) == missing_components[Len(missing_components)]

\* line 340: fallback_category
FallbackCategory(missing_components) == missing_components[1]

\* lines 341-345: the search for the fallback category
FallbackCall(category) ==
    [query |-> <<>>, category |-> category, min_credit |-> {},
     max_credit |-> {}]

PbIdle ==
    [pc |-> "idle", include_peripherals |-> FALSE, budget |-> {},
     available |-> {}, fallback_call |-> FallbackCall(""),
     reply |-> [kind |-> "", keys |-> <<>>],
     required |-> <<>>, missing |-> <<>>, selection |-> <<>>,
     fetched |-> <<>>, details |-> <<>>, errors |-> <<>>, faults |-> 0,
     found |-> <<>>, calls |-> {}, response_text |-> <<>>, products |-> <<>>,
     catalog_down |-> FALSE, catalog_error |-> ""]

\* get_components_for_build (product_search.py 326-385): the categories
\* with an in-stock candidate; when every search call fails, each gives []
\* and no category is added
BuildProducts(available, catalog_down) ==
    IF catalog_down THEN {} ELSE available

\* lines 304-334: get_components_for_build, then the missing categories in
\* the order of the required ones; available is the set of categories the
\* catalog has an in-stock candidate for
BuildStart(include_peripherals, budget, available, catalog_down) ==
    /\ pb.pc = "idle"
    /\ LET required == RequiredCategories(include_peripherals)
           build_products == BuildProducts(available, catalog_down)
           missing == MissingComponents(required, build_products)
       IN  pb' = [PbIdle EXCEPT
                    !.available = build_products,
                    !.catalog_down = catalog_down,
                    !.pc = IF missing # <<>> THEN "fallback" ELSE "select",
                    !.include_peripherals = include_peripherals,
                    !.budget = budget, !.required = required,
                    !.missing = missing,
                    !.calls = {"get_components_for_build"}]
    /\ UNCHANGED <<sessionVars, sf, catalog, sb, ps, gc, vp, br>>

\* lines 336-368: the first missing category is searched alone (no price,
\* no stock filter); its products are ranked and presented as a
\* recommendation, or the category is reported unavailable
BuildFallback(response, reply) ==
    /\ pb.pc = "fallback"
    /\ LET fallback_products == Search(response)
           selected_products == SelectBest(fallback_products, reply)
           searched == [pb EXCEPT !.fallback_call =
                                     FallbackCall(FallbackCategory(pb.missing)),
                                  !.catalog_error = response.error]
       IN  pb' =
             IF fallback_products # <<>>
             THEN [searched EXCEPT !.pc = "done",
                             !.found = fallback_products,
                             !.calls = pb.calls \cup
                                {"search", "select_best_products",
                                 "generate_product_response"},
                             !.response_text = T_BUILD_MISSING,
                             !.products = Take(selected_products, 5)]
             ELSE [searched EXCEPT !.pc = "done",
                             !.calls = pb.calls \cup {"search"},
                             !.response_text = T_BUILD_UNAVAILABLE]
    /\ UNCHANGED <<sessionVars, sf, catalog, sb, ps, gc, vp, br>>

\* lines 374-392: the selection; its SKUs are looked up only if it has as
\* many keys as there are required categories; a list of that length has
\* no .items(), which raises out of the branch
BuildSelect(reply) ==
    /\ pb.pc = "select"
    /\ LET selection == SelectPcComponents(reply, pb.required)
       IN  pb' = [pb EXCEPT
                    !.pc = IF Len(selection) # Len(pb.required) THEN "render"
                           ELSE IF reply.kind = "list" THEN "raised"
                           ELSE "lookup",
                    !.selection = selection, !.reply = reply,
                    !.calls = pb.calls \cup {"select_pc_components"}]
    /\ UNCHANGED <<sessionVars, sf, catalog, sb, ps, gc, vp, br>>

\* lines 392-401: the next category's SKU is fetched from the catalog
BuildLookup(sku, response) ==
    /\ pb.pc = "lookup"
    /\ LET category == pb.selection[Len(pb.fetched) + 1]
           product_detail == GetBySku(sku, response)
           fault == IF product_detail = <<P_STOCKED>> THEN 0 ELSE 1
           last == Len(pb.fetched) + 1 = Len(pb.selection)
       IN  /\ pb.faults + fault <= MaxFaults
           /\ pb' = [pb EXCEPT
                       !.pc = IF last THEN "render" ELSE "lookup",
                       !.fetched = Append(pb.fetched,
                                          [category |-> category, sku |-> sku]),
                       !.faults = pb.faults + fault,
                       !.calls = pb.calls \cup {"get_by_sku"},
                       !.details =
                          IF product_detail # <<>>
                          THEN Append(pb.details,
                                      [category |-> category,
                                       product |-> product_detail[1]])
                          ELSE pb.details,
                       !.errors =
                          IF product_detail # <<>> THEN pb.errors
                          ELSE Append(pb.errors, category)]
    /\ UNCHANGED <<sessionVars, sf, catalog, sb, ps, gc, vp, br>>

\* lines 404-425: the build is presented if every required category has
\* its product, and reported as not assembled otherwise
BuildRender ==
    /\ pb.pc = "render"
    /\ pb' =
         IF Len(pb.details) = Len(pb.required)
         THEN [pb EXCEPT !.pc = "done",
                         !.calls = pb.calls \cup {"generate_pc_build_response"},
                         !.response_text = T_GENERATED,
                         !.products =
                            [i \in 1..Len(pb.details) |-> pb.details[i].product]]
         ELSE [pb EXCEPT !.pc = "done", !.response_text = T_BUILD_INVALID]
    /\ UNCHANGED <<sessionVars, sf, catalog, sb, ps, gc, vp, br>>

-----------------------------------------------------------------------------
(* chat_assistant, intent product_search (views.py 133-285): the direct *)
(* SKU request and the classified search                                *)

\* the str of a run of characters
RECURSIVE Join(_)
Join(s) == IF s = <<>> THEN "" ELSE Head(s) \o Join(Tail(s))

\* messages of the user: direct SKU requests in every spelling of the
\* pattern, alone and among product words, and messages without one
SkuMessages ==
    { <<"s", "k", "u", " ", "4", "7">>,
      <<"S", "k", "U", ":", "4", "7">>,
      <<"s", "k", "u", ":", " ", "\t", "4", "8">>,
      <<"s", "k", "u", "4", "7", "x">>,
      <<"r", "t", "x", " ", "S", "K", "U", "4", "7", " ", "r", "t", "x">>,
      <<"s", "k", "u", "4", "7", " ", "s", "k", "u", "4", "8">>,
      <<"s", "k", "u", " ", "x", " ", "s", "k", "u", "4", "8">>,
      <<"a", "s", "k", "u", "9", "9">>,
      <<"s", "k", "u", "0", "4", "7">>,
      <<"S", "K", "U", "\n", "5", "0">>,
      <<"s", "k", "u", " ", "x", "4", "7">>,
      <<"s", "k", " ", "4", "7">>,
      <<"r", "t", "x">> }

\* what GPTService.analyze_query may answer for a message
Analyses ==
    [intent : {"product_search", "general"}, search_query : {"rtx", "rtx 40"},
     budget : SearchBudgets]

\* lines 203-211: the analysis stood in for a direct SKU request
ForcedAnalysis(forced_sku) ==
    [intent |-> "product_search", search_query |-> forced_sku, budget |-> {}]

\* what the ranking collaborator does with the products of a search
RankingReplies ==
    {[kind |-> k, skus |-> <<>>] : k \in {"raises", "text", "object"}}
      \cup {[kind |-> "list", skus |-> q] :
              q \in SeqsUpTo({"47", "50", UNKNOWN_SKU}, MaxEmitted)
                      \cup {<<"47", "47", "47", "47", "47", "47">>}}

\* ProductSearchService.filter_by_price ({} is no budget)
FilterByPrice(products, max_price) ==
    IF max_price = {} THEN products
    ELSE SelectSeq(products, LAMBDA p : \A m \in max_price : p.credit <= m)

Call(fn, arg) == [fn |-> fn, arg |-> arg]

PsIdle ==
    [pc |-> "idle", user_message |-> <<>>, forced_sku |-> "", intent |-> "",
     search_query |-> "", budget |-> {}, calls |-> <<>>, products |-> <<>>,
     response_text |-> <<>>, catalog_error |-> ""]

\* lines 133-221: the SKU pattern, then the analysis: the stand-in for a
\* direct SKU request, the classifier's otherwise
PsAnalyze(user_message, classified) ==
    /\ ps.pc = "idle"
    /\ LET forced_sku == Join(ForcedSku(user_message))
           analysis == IF forced_sku # "" THEN ForcedAnalysis(forced_sku)
                       ELSE classified
       IN  ps' = [PsIdle EXCEPT
                    !.user_message = user_message,
                    !.forced_sku = forced_sku,
                    !.intent = analysis.intent,
                    !.search_query = analysis.search_query,
                    !.budget = analysis.budget,
                    !.calls = IF forced_sku # "" THEN <<>>
                              ELSE <<Call("analyze_query", "")>>,
                    !.response_text =
                        IF analysis.intent = "product_search" THEN <<>>
                        ELSE T_GENERATED,
                    !.pc = IF analysis.intent = "product_search"
                           THEN "search" ELSE "done"]
    /\ UNCHANGED <<sessionVars, sf, catalog, sb, pb, gc, vp, br>>

\* lines 233-252, 277-285: the lookup by SKU or the search with fallback
\* (some validated list; [] when its calls fail), the budget filter and the
\* stock filter
PsSearch(response) ==
    /\ ps.pc = "search"
    /\ LET forced == ps.forced_sku # ""
           found == IF forced THEN GetBySku(ps.forced_sku, response)
                    ELSE Search(response)
           priced == IF ps.budget # {} /\ found # <<>> /\ ~forced
                     THEN FilterByPrice(found, ps.budget) ELSE found
           products == FilterInStock(priced)
       IN  ps' = [ps EXCEPT
                    !.calls = Append(@, IF forced
                                        THEN Call("get_by_sku", ps.forced_sku)
                                        ELSE Call("search_with_fallback",
                                                  ps.search_query)),
                    !.products = products,
                    !.catalog_error = response.error,
                    !.response_text = IF products = <<>> THEN T_NO_PRODUCTS
                                      ELSE <<>>,
                    !.pc = IF products = <<>> THEN "done" ELSE "select"]
    /\ UNCHANGED <<sessionVars, sf, catalog, sb, pb, gc, vp, br>>

\* lines 254-275: the selection, the generated reply, the cut to 5
PsSelect(reply) ==
    /\ ps.pc = "select"
    /\ ps' = [ps EXCEPT
                !.calls = @ \o <<Call("select_best_products", ""),
                                 Call("generate_product_response", "")>>,
                !.products = Take(SelectBest(ps.products, reply), 5),
                !.response_text = T_GENERATED,
                !.pc = "done"]
    /\ UNCHANGED <<sessionVars, sf, catalog, sb, pb, gc, vp, br>>

-----------------------------------------------------------------------------
(* ProductSearchService.get_components_for_build (product_search.py 264-400) *)

\* lines 297-316: the share of the budget per category, in percent
BudgetAllocation(category_name, include_peripherals) ==
    IF include_peripherals
    THEN CASE category_name = "cpu" -> 18
           [] category_name = "gpu" -> 25
           [] category_name = "motherboard" -> 10
           [] category_name = "ssd" -> 7
           [] category_name = "psu" -> 7
           [] category_name = "case" -> 3
           [] category_name = "monitor" -> 20
           [] OTHER -> 5
    ELSE CASE category_name = "cpu" -> 25
           [] category_name = "gpu" -> 35
           [] category_name = "motherboard" -> 15
           [] category_name = "case" -> 5
           [] OTHER -> 10

\* lines 319-323: tier_ranges; an unknown tier is read as "mid"
TierRanges(tier) ==
    CASE LowerText(tier) = <<"b", "u", "d", "g", "e", "t">> ->
           [base |-> <<5000, 80000>>, gpu |-> <<30000, 150000>>]
      [] LowerText(tier) = <<"h", "i", "g", "h">> ->
           [base |-> <<50000, 500000>>, gpu |-> <<300000, 1500000>>]
      [] OTHER -> [base |-> <<20000, 200000>>, gpu |-> <<100000, 400000>>]

\* lines 330-348: the price window of a category, <<min_price, max_price>>;
\* with a budget it is 0.4 and 2.0 times the category's share
PriceWindow(category_name, budget, tier, include_peripherals) ==
    IF budget # {}
    THEN LET b == CHOOSE n \in budget : TRUE
             allocation == BudgetAllocation(category_name, include_peripherals)
         IN  <<(b * allocation * 4) \div 1000, (b * allocation * 2) \div 100>>
    ELSE IF category_name = "gpu" THEN TierRanges(tier).gpu
    ELSE IF category_name \in {"case", "psu"} THEN <<5000, 150000>>
    ELSE IF category_name \in {"mouse", "keyboard"} THEN <<3000, 80000>>
    ELSE IF category_name = "monitor" THEN <<40000, 400000>>
    ELSE TierRanges(tier).base

\* lines 353-380: the call of a stage: the window, the window widened to
\* 0.3 x min_price and 2.5 x max_price, no price filter ({} is None)
StageCall(category_name, window, stage) ==
    CASE stage = 1 ->
           [category |-> category_name, min_credit |-> {window[1]},
            max_credit |-> {window[2]}, limit |-> 40]
      [] stage = 2 ->
           [category |-> category_name, min_credit |-> {(window[1] * 3) \div 10},
            max_credit |-> {(window[2] * 5) \div 2}, limit |-> 50]
      [] OTHER ->
           [category |-> category_name, min_credit |-> {}, max_credit |-> {},
            limit |-> 50]

\* budgets and tiers the build branch may pass
GcBudgets == {{}, {100000}}

GcTiers == {<<"m", "i", "d">>, <<"H", "i", "g", "h">>,
            <<"b", "u", "d", "g", "e", "t">>, <<"p", "r", "o">>}

\* what the catalog may answer to one stage
GcResponses ==
    {[ok |-> FALSE, error |-> "timeout", products |-> <<>>],
     Answered(<<>>), Answered(<<P_SOLD_OUT>>),
     Answered(<<P_SOLD_OUT, P_STOCKED>>)}

\* variant: a pool that keeps what the catalog returned
GcPoolUnfiltered(products) == products

\* lines 361, 372, 382: in_stock = cls.filter_in_stock(products)
GcPool(products) == FilterInStock(products)

GcIdle ==
    [pc |-> "idle", include_peripherals |-> FALSE, budget |-> {},
     tier |-> <<>>, required |-> <<>>, index |-> 0, stage |-> 0,
     calls |-> <<>>, in_stock |-> <<>>, n_calls |-> 0,
     build_products |-> <<>>]

\* lines 283-326: the arguments and the required categories
GetComponentsForBuild(budget, tier, include_peripherals) ==
    /\ gc.pc = "idle"
    /\ gc' = [GcIdle EXCEPT !.pc = "search", !.budget = budget, !.tier = tier,
                            !.include_peripherals = include_peripherals,
                            !.required = RequiredCategories(include_peripherals),
                            !.index = 1, !.stage = 1]
    /\ UNCHANGED <<sessionVars, sf, catalog, sb, pb, ps, vp, br>>

\* lines 353-390: one catalog call for the category at hand; the next
\* stage is tried only while in_stock is empty, and the category is added
\* to build_products with the in-stock products found
GcSearch(response) ==
    /\ gc.pc = "search"
    /\ LET category_name == gc.required[gc.index]
           window == PriceWindow(category_name, gc.budget, gc.tier,
                                 gc.include_peripherals)
           call == StageCall(category_name, window, gc.stage)
           in_stock == GcPool(Search(response))
           settled == in_stock # <<>> \/ gc.stage = 3
           last == gc.index = Len(gc.required)
       IN  gc' = [gc EXCEPT
                    !.calls = IF gc.stage = 1 THEN <<call>>
                              ELSE Append(gc.calls, call),
                    !.in_stock = in_stock,
                    !.n_calls = gc.n_calls + 1,
                    !.build_products =
                       IF in_stock # <<>>
                       THEN Append(gc.build_products,
                                   [category |-> category_name,
                                    products |-> in_stock])
                       ELSE gc.build_products,
                    !.stage = IF settled THEN 1 ELSE gc.stage + 1,
                    !.index = IF settled /\ ~last THEN gc.index + 1
                              ELSE gc.index,
                    !.pc = IF settled /\ last THEN "done" ELSE "search"]
    /\ UNCHANGED <<sessionVars, sf, catalog, sb, pb, ps, vp, br>>

-----------------------------------------------------------------------------
(* ProductSearchService._validate_products (product_search.py 116-141) on *)
(* the records as the catalog sends them                                  *)

\* number of records in one response
MaxRecords == 3

\* a JSON value of a record: its kind and, for a number or a string that
\* reads as a number, the number
Json(kind, value) == [kind |-> kind, value |-> value]

MISSING == Json("missing", 0)

\* a record of the response: a JSON object with these members, or a value
\* that is no object
RawRecord(sku, name, credit, bonus, stock) ==
    [object |-> TRUE, sku |-> sku, name |-> name, credit |-> credit,
     bonus |-> bonus, stock |-> stock]

R_GOOD == RawRecord("47", "rtx 40", Json("number", 100), Json("number", 5),
                    Json("number", 3))
R_NO_SKU == RawRecord("", "rtx 41", Json("number", 100), Json("number", 5),
                      Json("number", 3))
R_NO_NAME == RawRecord("42", "", Json("number", 100), Json("number", 5),
                       Json("number", 3))
R_BARE == RawRecord("43", "rtx 43", MISSING, MISSING, MISSING)
R_STRINGS == RawRecord("44", "rtx 44", Json("numeric_str", 200),
                       Json("numeric_str", 7), Json("numeric_str", 2))
R_TEXT_PRICE == RawRecord("45", "rtx 45", Json("text", 0), Json("number", 5),
                          Json("number", 3))
R_NULL_STOCK == RawRecord("46", "rtx 46", Json("number", 100),
                          Json("number", 5), Json("null", 0))
R_TEXT_BONUS == RawRecord("48", "rtx 48", Json("number", 100), Json("text", 0),
                          Json("number", 3))
R_NOT_OBJECT == [RawRecord("", "", MISSING, MISSING, MISSING)
                   EXCEPT !.object = FALSE]

RawRecords == {R_GOOD, R_NO_SKU, R_NO_NAME, R_BARE, R_STRINGS, R_TEXT_PRICE,
               R_NULL_STOCK, R_TEXT_BONUS, R_NOT_OBJECT}

\* float(p.get(key, 0)) and int(p.get(key, 0)): the member missing reads
\* as the default 0; a string that is no number raises ValueError, null
\* raises TypeError
Coerces(field) == field.kind \in {"number", "numeric_str", "missing"}

Coerced(field) == IF field.kind = "missing" THEN 0 ELSE field.value

\* lines 120-139, one record: p.get on a value that is no object raises
\* AttributeError, which the loop does not catch; a record without sku or
\* name is skipped; ValueError and TypeError skip the record as well
ValidateOne(p) ==
    IF ~p.object THEN [raised |-> TRUE, validated |-> <<>>]
    ELSE IF p.sku = "" \/ p.name = "" THEN [raised |-> FALSE, validated |-> <<>>]
    ELSE IF Coerces(p.credit) /\ Coerces(p.bonus) /\ Coerces(p.stock)
    THEN [raised |-> FALSE,
          validated |-> <<[sku |-> p.sku, name |-> p.name,
                           credit |-> Coerced(p.credit),
                           bonus |-> Coerced(p.bonus),
                           stock |-> Coerced(p.stock)]>>]
    ELSE [raised |-> FALSE, validated |-> <<>>]

\* lines 116-141: the loop over the records
RECURSIVE ValidateRecords(_)
ValidateRecords(products) ==
    IF products = <<>> THEN [raised |-> FALSE, validated |-> <<>>]
    ELSE LET one == ValidateOne(Head(products))
             rest == ValidateRecords(Tail(products))
         IN  IF one.raised \/ rest.raised
             THEN [raised |-> TRUE, validated |-> <<>>]
             ELSE [raised |-> FALSE,
                   validated |-> one.validated \o rest.validated]

\* search, lines 92-114: the validated records; an exception out of
\* _validate_products is caught and [] is returned
SearchRecords(products) == ValidateRecords(products).validated

VpIdle == [pc |-> "idle", products |-> <<>>, raised |-> FALSE,
           validated |-> <<>>, returned |-> <<>>]

\* the catalog answers a search with these records
VpResponse(products) ==
    /\ vp.pc = "idle"
    /\ vp' = [VpIdle EXCEPT !.pc = "validate", !.products = products]
    /\ UNCHANGED <<sessionVars, sf, catalog, sb, pb, ps, gc, br>>

\* _validate_products runs and search returns
VpValidate ==
    /\ vp.pc = "validate"
    /\ vp' = [vp EXCEPT !.pc = "done",
                        !.raised = ValidateRecords(vp.products).raised,
                        !.validated = ValidateRecords(vp.products).validated,
                        !.returned = SearchRecords(vp.products)]
    /\ UNCHANGED <<sessionVars, sf, catalog, sb, pb, ps, gc, br>>

-----------------------------------------------------------------------------
(* chat_assistant, intent product_search without a direct SKU (views.py   *)
(* 238-285), with search_with_fallback run against a catalog whose answer *)
(* to each strategy is given                                              *)

\* a value Python reads as true: a number other than 0 ({} is None)
Truthy(number) == number \notin {{}, {0}}

\* the budgets the classifier may give
OfferBudgets == SearchBudgets \cup {{0}}

\* what the catalog has for the call of a strategy
ShelfLists ==
    {<<>>, <<P_SOLD_OUT>>, <<P_STOCKED>>, <<P_COSTLY, P_SOLD_OUT, P_STOCKED>>}

Shelves == [1..4 -> ShelfLists]

\* search_with_fallback, lines 144-188, run to its return: each strategy
\* in turn is answered from the shelf
RECURSIVE RunFallback(_, _)
RunFallback(s, shelf) ==
    IF s.pc = "done" THEN s
    ELSE RunFallback(Attempt(s, Answered(shelf[StrategyCall(s).strategy])), shelf)

\* the strategies search_with_fallback has for a query and a category
\* (lines 157, 164, 171, 178-181)
Strategies(query, category) ==
    {1} \cup (IF category # "" THEN {2} ELSE {})
        \cup (IF query # <<>> THEN {3} ELSE {})
        \cup (IF query # <<>> /\ Len(Split(query)) > 1 /\ NextWord(query, 0) > 0
              THEN {4} ELSE {})

\* variant: a branch that does not filter by price
NoPriceFilter(products, budget) == products

\* lines 246-248: filter_by_price when there is a budget and a product
BudgetFilter(products, budget) ==
    IF Truthy(budget) /\ products # <<>>
    THEN SelectSeq(products, LAMBDA p : \A m \in budget : p.credit <= m)
    ELSE products

BrIdle ==
    [pc |-> "idle", query |-> <<>>, category |-> "", budget |-> {},
     shelf |-> [k \in 1..4 |-> <<>>], trace |-> <<>>, found |-> <<>>,
     products |-> <<>>, response_text |-> <<>>]

\* lines 224-227: the analysis of the request; the catalog as it is then
BrRequest(query, category, budget, shelf) ==
    /\ br.pc = "idle"
    /\ br' = [BrIdle EXCEPT !.pc = "search", !.query = query,
                            !.category = category, !.budget = budget,
                            !.shelf = shelf]
    /\ UNCHANGED <<sessionVars, sf, catalog, sb, pb, ps, gc, vp>>

\* lines 239-285: search_with_fallback, the budget filter, the stock
\* filter, and the no-products reply when nothing is left
BrSearch ==
    /\ br.pc = "search"
    /\ LET s == RunFallback([SfIdle EXCEPT !.pc = "strategy1",
                                           !.query = br.query,
                                           !.category = br.category,
                                           !.budget = br.budget], br.shelf)
           products == FilterInStock(BudgetFilter(s.result, br.budget))
       IN  br' = [br EXCEPT !.trace = s.trace, !.found = s.result,
                            !.products = products,
                            !.response_text = IF products = <<>>
                                              THEN T_NO_PRODUCTS ELSE <<>>,
                            !.pc = IF products = <<>> THEN "done" ELSE "select"]
    /\ UNCHANGED <<sessionVars, sf, catalog, sb, pb, ps, gc, vp>>

\* lines 254-275: the selection, the generated reply, the cut to 5
BrSelect(reply) ==
    /\ br.pc = "select"
    /\ br' = [br EXCEPT !.products = Take(SelectBest(br.products, reply), 5),
                        !.response_text = T_GENERATED,
                        !.pc = "done"]
    /\ UNCHANGED <<sessionVars, sf, catalog, sb, pb, ps, gc, vp>>

-----------------------------------------------------------------------------
(* The chat service: every handler, from an empty database *)

\* no service function is running; the catalog answers as the caller of a
\* search step says
FunctionsIdle ==
    /\ sb = SbIdle
    /\ pb = PbIdle
    /\ ps = PsIdle
    /\ gc = GcIdle
    /\ vp = VpIdle
    /\ br = BrIdle

ServicesIdle ==
    /\ catalog = {}
    /\ FunctionsIdle

Init ==
    /\ sessions = <<>>
    /\ messages = <<>>
    /\ logs = EmptyBag
    /\ req = [r \in Reqs |-> ReqIdle]
    /\ hand = HandIdle
    /\ adm = [m \in Managers |-> AdmIdle]
    /\ sf = SfIdle
    /\ ServicesIdle

NextChat ==
    \E r \in Reqs :
        \/ \E input \in ChatInputs, session_id \in ClientIds \cup {None} :
              ChatGet(r, input, session_id)
        \/ ChatCreate(r)
        \/ \E outcome \in SampleOutcomes : ChatReply(r, outcome)

NextHandoff ==
    \/ \E session_id \in HandoffIds : RequestManagerGet(session_id)
    \/ RequestManagerSave

NextAdmin ==
    \E m \in Managers :
        \/ \E pk \in 1..Len(sessions) : ChatViewGet(m, pk)
        \/ ChatViewSave(m)
        \/ \E pk \in 1..Len(sessions), text \in ManagerTexts :
              SendMessageGet(m, pk, text)
        \/ SendMessageSave(m)
        \/ \E sel \in Selections : MarkAsClosed(m, sel)
        \/ \E sel \in Selections : AssignToMe(m, sel)

Next == NextChat \/ NextHandoff \/ NextAdmin

Spec == Init /\ [][Next]_vars

-----------------------------------------------------------------------------
(* One chat request against a session that already has a history *)

\* the text of the i-th stored message
Letters ==
    <<"a", "b", "c", "d", "e", "f", "g", "h", "i", "j", "k", "l", "m", "n",
      "o", "p", "q", "r">>

\* a stored conversation of n messages: customer, bot and manager messages
\* in turn, starting at phase p
StoredMessage(i, p) ==
    CASE (i + p) % 3 = 0 -> NewMessage(1, <<Letters[i]>>, TRUE, "user", "", FALSE)
      [] (i + p) % 3 = 1 -> NewMessage(1, <<Letters[i]>>, FALSE, "bot", "general", FALSE)
      [] OTHER -> NewMessage(1, <<Letters[i]>>, FALSE, "manager", "", FALSE)

StoredHistory(n, p) == [i \in 1..n |-> StoredMessage(i, p)]

StoredSessions ==
    { [session_id |-> "s1", status |-> st,
       manager |-> IF st = "with_manager" THEN "m1" ELSE None] :
         st \in STATUS_CHOICES }

InitHistory ==
    /\ \E row \in StoredSessions : sessions = <<row>>
    /\ \E n \in 0..MaxStored, p \in 0..2 : messages = StoredHistory(n, p)
    /\ logs = EmptyBag
    /\ req = [r \in Reqs |-> ReqIdle]
    /\ hand = HandIdle
    /\ adm = [m \in Managers |-> AdmIdle]
    /\ sf = SfIdle
    /\ ServicesIdle

NextHistory ==
    \/ \E input \in ChatInputs \cup MalformedInputs,
          session_id \in ClientIds \cup {None} :
          ChatGet(1, input, session_id)
    \/ \E outcome \in ClassifiedOutcomes \cup SkuOutcomes : ChatReply(1, outcome)

SpecHistory == InitHistory /\ [][NextHistory]_vars

-----------------------------------------------------------------------------
(* One chat_assistant request while the audit table refuses entries *)

\* AssistantLog.log_type values chat_assistant writes
LogTypes == {"session_start", "user_question", "bot_response", "error"}

AuditInputs ==
    {[input EXCEPT !.failing = failing] :
        input \in ChatInputs, failing \in SUBSET LogTypes}

InitAudit ==
    /\ sessions \in {<<>>} \cup {<<row>> : row \in StoredSessions}
    /\ messages = <<>>
    /\ logs = EmptyBag
    /\ req = [r \in Reqs |-> ReqIdle]
    /\ hand = HandIdle
    /\ adm = [m \in Managers |-> AdmIdle]
    /\ sf = SfIdle
    /\ ServicesIdle

NextAudit ==
    \/ \E input \in AuditInputs, session_id \in ClientIds \cup {None} :
          ChatGet(1, input, session_id)
    \/ ChatCreate(1)
    \/ \E outcome \in ClassifiedOutcomes \cup SkuOutcomes : ChatReply(1, outcome)

SpecAudit == InitAudit /\ [][NextAudit]_vars

-----------------------------------------------------------------------------
(* One call of search_with_fallback *)

NextSearch ==
    \/ \E query \in SearchQueries, category \in SearchCategories,
          budget \in SearchBudgets : SearchWithFallback(query, category, budget)
    \/ \E response \in ApiResponses : Strategy1(response)
    \/ \E response \in ApiResponses : Strategy2(response)
    \/ \E response \in ApiResponses : Strategy3(response)
    \/ \E response \in ApiResponses : Strategy4(response)

SpecSearch == Init /\ [][NextSearch]_vars

-----------------------------------------------------------------------------
(* One call of search_with_fallback against a catalog that answers the same
   call the same way *)

\* largest number of search calls the catalog has valid products for
MaxMatching == 2

\* the words of the queries
SearchWords ==
    UNION {{Split(q)[i] : i \in 1..Len(Split(q))} : q \in SearchQueries}

\* the search calls search_with_fallback can make: the parameters q,
\* category and max_credit of the request
CatalogCalls ==
    [query : SearchQueries \cup SearchWords \cup {<<>>},
     category : SearchCategories, max_credit : SearchBudgets]

\* the parameters of a search call
CallKey(call) ==
    [query |-> call.query, category |-> call.category,
     max_credit |-> call.max_credit]

\* what the catalog answers to a call
CatalogResponses(call) ==
    IF CallKey(call) \in catalog
    THEN {r \in ApiResponses : Search(r) # <<>>}
    ELSE {r \in ApiResponses : r.ok /\ Search(r) = <<>>}

\* the catalogs with valid products for at most n search calls
RECURSIVE Catalogs(_)
Catalogs(n) ==
    IF n = 0 THEN {{}}
    ELSE LET smaller == Catalogs(n - 1)
         IN  smaller \cup {c \cup {call} : c \in smaller, call \in CatalogCalls}

InitCatalog ==
    /\ sessions = <<>>
    /\ messages = <<>>
    /\ logs = EmptyBag
    /\ req = [r \in Reqs |-> ReqIdle]
    /\ hand = HandIdle
    /\ adm = [m \in Managers |-> AdmIdle]
    /\ sf = SfIdle
    /\ catalog \in Catalogs(MaxMatching)
    /\ FunctionsIdle

NextCatalog ==
    \/ \E query \in SearchQueries, category \in SearchCategories,
          budget \in SearchBudgets : SearchWithFallback(query, category, budget)
    \/ /\ sf.pc = "strategy1"
       /\ \E response \in CatalogResponses(StrategyCall(sf)) : Strategy1(response)
    \/ /\ sf.pc = "strategy2"
       /\ \E response \in CatalogResponses(StrategyCall(sf)) : Strategy2(response)
    \/ /\ sf.pc = "strategy3"
       /\ \E response \in CatalogResponses(StrategyCall(sf)) : Strategy3(response)
    \/ /\ sf.pc = "strategy4"
       /\ \E response \in CatalogResponses(StrategyCall(sf)) : Strategy4(response)

SpecCatalog == InitCatalog /\ [][NextCatalog]_vars

-----------------------------------------------------------------------------
(* One call of select_best_products *)

NextSelect ==
    \/ \E products \in CandidateLists : SelectBestProducts(products)
    \/ \E reply \in SelectorReplies : SelectBestReturn(reply)

SpecSelect == Init /\ [][NextSelect]_vars

-----------------------------------------------------------------------------
(* One pc_build request *)

NextBuild ==
    \/ \E include_peripherals \in BOOLEAN, budget \in BuildBudgets,
          catalog_down \in BOOLEAN :
            \E available \in SUBSET Range(RequiredCategories(include_peripherals)) :
               BuildStart(include_peripherals, budget, available, catalog_down)
    \/ \E response \in ApiResponses, reply \in FallbackReplies :
            BuildFallback(response, reply)
    \/ \E reply \in BuildReplies(pb.required) : BuildSelect(reply)
    \/ \E sku \in BuildSkus, response \in LookupResponses :
            BuildLookup(sku, response)
    \/ BuildRender

SpecBuild == Init /\ [][NextBuild]_vars

-----------------------------------------------------------------------------
(* One request that is a product search or a general question *)

NextSku ==
    \/ \E user_message \in SkuMessages, classified \in Analyses :
            PsAnalyze(user_message, classified)
    \/ \E response \in LookupResponses : PsSearch(response)
    \/ \E reply \in RankingReplies : PsSelect(reply)

SpecSku == Init /\ [][NextSku]_vars

-----------------------------------------------------------------------------
(* One product search against a given catalog *)

NextOffer ==
    \/ \E query \in SearchQueries, category \in SearchCategories,
          budget \in OfferBudgets, shelf \in Shelves :
             BrRequest(query, category, budget, shelf)
    \/ BrSearch
    \/ \E reply \in RankingReplies : BrSelect(reply)

SpecOffer == Init /\ [][NextOffer]_vars

-----------------------------------------------------------------------------
(* One response of the catalog validated *)

NextValidate ==
    \/ \E products \in SeqsUpTo(RawRecords, MaxRecords) : VpResponse(products)
    \/ VpValidate

SpecValidate == Init /\ [][NextValidate]_vars

-----------------------------------------------------------------------------
(* One invocation of get_components_for_build *)

NextComponents ==
    \/ \E budget \in GcBudgets, tier \in GcTiers, include_peripherals \in BOOLEAN :
            GetComponentsForBuild(budget, tier, include_peripherals)
    \/ \E response \in GcResponses : GcSearch(response)

SpecComponents == Init /\ [][NextComponents]_vars

-----------------------------------------------------------------------------
(* One request that uses the catalog: a product search, or a PC build for
   which the catalog gives no candidate in some category (with the catalog
   down that is every category), which ends in the fallback search *)

NextShopping ==
    \/ pb = PbIdle /\ NextSku
    \/ /\ ps = PsIdle
       /\ \E include_peripherals \in BOOLEAN, budget \in BuildBudgets,
             catalog_down \in BOOLEAN :
               \E available \in SUBSET Range(RequiredCategories(include_peripherals)) :
                  BuildStart(include_peripherals, budget, available, catalog_down)
       /\ pb'.pc = "fallback"
    \/ /\ ps = PsIdle
       /\ \E response \in ApiResponses, reply \in FallbackReplies :
               BuildFallback(response, reply)

SpecShopping == Init /\ [][NextShopping]_vars

-----------------------------------------------------------------------------
(* Properties *)

\* C1: a request that finds its session WithManager stores exactly one
\* customer message (the text it received, whatever it is) in that session
\* and no bot message, and is over in that step.
C1_ManagerModeSilence ==
    /\ [](\A r \in Reqs :
            req[r].status = "with_manager" =>
              req[r].pc = "done" /\ req[r].nUser = 1 /\ req[r].nBot = 0)
    /\ [][\A r \in Reqs :
            (req[r].pc # "done" /\ req'[r].status = "with_manager") =>
              \E row \in {messages'[Len(messages')]} :
                /\ messages' = Append(messages, row)
                /\ row.is_user /\ row.sender_type = "user"
                /\ row.session = req'[r].session
                /\ row.message = req'[r].message]_vars

\* C1 witness: a message carrying a SKU request was sent to a session that
\* is with a manager, and was only stored.
C1_Witness ==
    \E r \in Reqs :
        /\ req[r].pc = "done" /\ req[r].status = "with_manager"
        /\ ForcedSku(req[r].message) # <<>>
        /\ req[r].nUser = 1

\* C2: a request that finds its session WithManager invokes no
\* collaborator (classifier, catalog client, selector, assembler, generator,
\* image analysis) and answers success with an empty reply text, no
\* products and with_manager true.
C2_ManagerModeBypass ==
    \A r \in Reqs :
        req[r].status = "with_manager" =>
          /\ req[r].pc = "done"
          /\ req[r].calls = {}
          /\ req[r].resp.code = 200 /\ req[r].resp.success
          /\ req[r].resp.response = <<>>
          /\ req[r].resp.products = 0
          /\ req[r].resp.with_manager

\* C2 witness: an image was sent to a session that is with a manager; no
\* image analysis and no other collaborator ran.
C2_Witness ==
    \E r \in Reqs :
        /\ req[r].status = "with_manager"
        /\ req[r].has_file /\ req[r].is_image
        /\ req[r].calls = {}
        /\ req[r].resp.with_manager

\* C3: every change of a session's status is an edge Active ->
\* PendingManager, PendingManager -> WithManager or any -> Closed.
C3_StatusMonotone ==
    [][\A pk \in 1..Len(sessions) :
         \/ sessions'[pk].status = sessions[pk].status
         \/ sessions[pk].status = "active" /\ sessions'[pk].status = "pending_manager"
         \/ sessions[pk].status = "pending_manager"
              /\ sessions'[pk].status = "with_manager"
         \/ sessions'[pk].status = "closed"]_vars

\* C4: a session whose status is Closed stays Closed.
C4_ClosedTerminal ==
    [][\A pk \in 1..Len(sessions) :
         sessions[pk].status = "closed" => sessions'[pk].status = "closed"]_vars

\* C5: a session whose status has left Active is never Active again.
C5_NeverActiveAgain ==
    [][\A pk \in 1..Len(sessions) :
         sessions[pk].status # "active" => sessions'[pk].status # "active"]_vars

\* C6 as stated: a handoff request on a session that is PendingManager when
\* the request reads it and when it saves it leaves the session row as it is,
\* records one more audit entry and leaves the message log unchanged.
C6_RepeatOnlyAudits ==
    [][(/\ hand.pc = "loaded" /\ hand'.pc = "idle"
        /\ hand.row.status = "pending_manager"
        /\ sessions[hand.session] = hand.row) =>
          /\ sessions' = sessions
          /\ logs' = logs (+) SetToBag({[session |-> hand.session,
                                         log_type |-> "manager_handoff",
                                         severity |-> "info",
                                         response_time_ms |-> FALSE]})
          /\ messages' = messages]_vars

\* C6 amended: a handoff request on a session that is PendingManager when
\* the request reads it and when it saves it leaves the session row (status
\* and assigned agent) as it is, records one more audit entry, and appends
\* one bot message, the handoff notice, to the session's message log.
C6_RepeatAuditsAndNotifies ==
    [][(/\ hand.pc = "loaded" /\ hand'.pc = "idle"
        /\ hand.row.status = "pending_manager"
        /\ sessions[hand.session] = hand.row) =>
          /\ sessions' = sessions
          /\ logs' = logs (+) SetToBag({[session |-> hand.session,
                                         log_type |-> "manager_handoff",
                                         severity |-> "info",
                                         response_time_ms |-> FALSE]})
          /\ \E row \in {messages'[Len(messages')]} :
                /\ messages' = Append(messages, row)
                /\ ~row.is_user /\ row.sender_type = "bot"
                /\ row.session = hand.session
                /\ row.message = T_HANDOFF_NOTICE]_vars

\* C6 witness: a second handoff request was served on a session that was
\* PendingManager when read and is PendingManager now.
C6_Witness ==
    /\ hand.pc = "idle" /\ hand.n >= 2 /\ hand.code = 200
    /\ hand.row.status = "pending_manager"
    /\ sessions[hand.session].status = "pending_manager"

\* C7: chat_view goes on to take a session only when the status it reads is
\* PendingManager, and otherwise changes nothing; the row it then writes,
\* and every row assign_to_me changes, is WithManager with the acting agent
\* assigned; assign_to_me changes exactly the selected PendingManager rows;
\* and every WithManager session has an assigned agent.
C7_PickupBindsAgent ==
    /\ [](\A pk \in 1..Len(sessions) :
            sessions[pk].status = "with_manager" => sessions[pk].manager # None)
    /\ [][\A m \in Managers :
            /\ (adm'[m].n = adm[m].n + 1 /\ adm'[m].op = "chat_view") =>
                 /\ sessions' = sessions
                 /\ adm'[m].pc = "chat_view"
                      <=> sessions[adm'[m].session].status = "pending_manager"
            /\ (adm[m].pc = "chat_view" /\ adm'[m].pc = "idle") =>
                 /\ adm[m].row.status = "pending_manager"
                 /\ sessions'[adm[m].session].status = "with_manager"
                 /\ sessions'[adm[m].session].manager = m
                 /\ \A pk \in 1..Len(sessions) :
                      pk # adm[m].session => sessions'[pk] = sessions[pk]
            /\ (adm'[m].n = adm[m].n + 1 /\ adm'[m].op = "assign_to_me") =>
                 \A pk \in 1..Len(sessions) :
                   IF pk \in adm'[m].sel /\ sessions[pk].status = "pending_manager"
                   THEN sessions'[pk].status = "with_manager"
                        /\ sessions'[pk].manager = m
                   ELSE sessions'[pk] = sessions[pk]]_vars

\* C7 witness: a staff user opened the chat of a PendingManager session and
\* the session is now WithManager and assigned to that user.
C7_Witness ==
    \E m \in Managers :
        /\ adm[m].op = "chat_view" /\ adm[m].pc = "idle"
        /\ adm[m].row.status = "pending_manager"
        /\ sessions[adm[m].session].status = "with_manager"
        /\ sessions[adm[m].session].manager = m

\* C8: no two sessions hold the same identifier; every request that holds a
\* session holds the one with its identifier; and a request that names an
\* identifier already stored attaches to that session, creating none and
\* adding its message to that session's messages.
C8_UniqueSessionPerId ==
    /\ [](\A i, j \in 1..Len(sessions) :
            sessions[i].session_id = sessions[j].session_id => i = j)
    /\ [](\A r \in Reqs :
            (req[r].session > 0 /\ req[r].session_id # None) =>
              sessions[req[r].session].session_id = req[r].session_id)
    /\ [][\A r \in Reqs :
            (/\ req[r].pc = "idle" /\ req'[r].pc # "idle"
             /\ req'[r].session_id # None
             /\ \E pk \in 1..Len(sessions) :
                  sessions[pk].session_id = req'[r].session_id
             /\ req'[r].resp.code # 400) =>
               /\ sessions' = sessions
               /\ req'[r].session \in 1..Len(sessions)
               /\ sessions[req'[r].session].session_id = req'[r].session_id
               /\ Len(messages') = Len(messages) + 1
               /\ messages'[Len(messages')].session = req'[r].session]_vars

\* C8 witness: two requests named the same identifier, unknown before the
\* first; both were served on one session, which holds both their messages.
C8_Witness ==
    /\ req[1].pc = "done" /\ req[2].pc = "done"
    /\ req[1].session_id = "s1" /\ req[2].session_id = "s1"
    /\ req[1].session > 0 /\ req[1].session = req[2].session
    /\ Cardinality(PksOf("s1")) = 1
    /\ Len(SelectSeq(SessionMessages(req[1].session), LAMBDA m : m.is_user)) = 2

\* C9: with n messages stored for the session before the request and
\* k = min(n, MAX_HISTORY_MESSAGES), the context has k + 1 elements: element
\* i is the stored message n - k + i (its text, and its role by is_user),
\* and the last element is the new customer message; the request stores the
\* new message after the ones stored before.
C9_ContextOrder ==
    [][\A r \in Reqs :
         (req[r].pc \in {"idle", "create"} /\ req'[r].pc = "saved") =>
           LET pk == req'[r].session
               stored == SelectSeq(messages, LAMBDA m : m.session = pk)
               n == Len(stored)
               k == IF n < MAX_HISTORY_MESSAGES THEN n ELSE MAX_HISTORY_MESSAGES
               ctx == req'[r].context
           IN  /\ Len(ctx) = k + 1
               /\ \A i \in 1..k :
                    /\ ctx[i].content = stored[n - k + i].message
                    /\ ctx[i].role =
                         IF stored[n - k + i].is_user THEN "user" ELSE "assistant"
               /\ ctx[k + 1] = [role |-> "user", content |-> req'[r].message]
               /\ \E row \in {messages'[Len(messages')]} :
                    /\ SelectSeq(messages', LAMBDA m : m.session = pk)
                         = Append(stored, row)
                    /\ row.is_user]_vars

\* C9 witness: the classifier ran on a context cut to the window: more
\* messages were stored than the window holds.
C9_Witness ==
    /\ req[1].pc = "done"
    /\ "analyze_query" \in req[1].calls
    /\ Len(req[1].context) = MAX_HISTORY_MESSAGES + 1
    /\ Len(SessionMessages(req[1].session)) > MAX_HISTORY_MESSAGES + 2
    /\ req[1].context[1].role = "assistant"

\* C10: the catalog calls of one search_with_fallback are made in the order
\* of the strategies (strategy 4 word by word, over the words of at least 3
\* characters); the first call is strategy 1; when it finds nothing and a
\* category is given the second is strategy 2; every call but the last
\* found nothing; each call carries its strategy's parameters; and the
\* result is what the last call found, [] when it found nothing.
C10_FallbackOrder ==
    LET t == sf.trace
        words == Split(sf.query)
    IN  /\ \A i, j \in 1..Len(t) :
             i < j => /\ t[i].call.strategy <= t[j].call.strategy
                      /\ t[i].call.strategy = t[j].call.strategy
                           => t[i].call.strategy = 4
        /\ \A i \in 1..(Len(t) - 1) : t[i].products = <<>>
        /\ Len(t) >= 1 =>
             t[1].call = [strategy |-> 1, query |-> sf.query,
                          category |-> sf.category, max_credit |-> sf.budget]
        /\ (Len(t) >= 2 /\ sf.category # "") =>
             t[2].call = [strategy |-> 2, query |-> <<>>,
                          category |-> sf.category, max_credit |-> sf.budget]
        /\ \A i \in 1..Len(t) :
             /\ t[i].call.strategy = 2 => sf.category # ""
             /\ t[i].call.strategy = 3 =>
                  t[i].call = [strategy |-> 3, query |-> sf.query,
                               category |-> "", max_credit |-> sf.budget]
                  /\ sf.query # <<>>
             /\ t[i].call.strategy = 4 =>
                  /\ Len(words) > 1
                  /\ \E w \in 1..Len(words) :
                       /\ Len(words[w]) >= 3
                       /\ t[i].call = [strategy |-> 4, query |-> words[w],
                                       category |-> sf.category,
                                       max_credit |-> {}]
        /\ sf.pc = "done" => Len(t) >= 1 /\ sf.result = t[Len(t)].products
        /\ sf.pc # "done" => sf.result = <<>>
        /\ (sf.pc = "done" /\ sf.result = <<>>) =>
             /\ (sf.query # <<>>) => \E i \in 1..Len(t) : t[i].call.strategy = 3
             /\ \A w \in 1..Len(words) :
                  (Len(words) > 1 /\ Len(words[w]) >= 3) =>
                    \E i \in 1..Len(t) :
                      t[i].call.strategy = 4 /\ t[i].call.query = words[w]

\* C10 witness: strategy 1 found nothing, strategy 2 found products and
\* they were returned, for a query of several words (for which strategies 3
\* and 4 would have had calls to make).
C10_Witness ==
    /\ sf.pc = "done"
    /\ Len(sf.trace) = 2
    /\ sf.trace[2].call.strategy = 2
    /\ sf.result # <<>>
    /\ NextWord(sf.query, 0) > 0 /\ Len(Split(sf.query)) > 1

\* C11: search_with_fallback returns an empty list only if the catalog has
\* no product for the query with the category, for the category alone, for
\* the query alone, and for any word of the query of at least 3 characters
\* (searched in the category, without a price cap).
C11_NeverEmptyWhenLooserMatch ==
    (sf.pc = "done" /\ sf.result = <<>>) =>
      LET words == Split(sf.query)
      IN  /\ [query |-> sf.query, category |-> sf.category,
               max_credit |-> sf.budget] \notin catalog
          /\ sf.category # "" =>
               [query |-> <<>>, category |-> sf.category,
                max_credit |-> sf.budget] \notin catalog
          /\ sf.query # <<>> =>
               [query |-> sf.query, category |-> "",
                max_credit |-> sf.budget] \notin catalog
          /\ \A w \in 1..Len(words) :
               Len(words[w]) >= 3 =>
                 [query |-> words[w], category |-> sf.category,
                  max_credit |-> {}] \notin catalog

\* C12: select_best_products returns an empty list exactly when the
\* candidate list is empty, whatever the ranking collaborator does.
C12_SelectionNeverEmpties ==
    sb.pc = "done" => (sb.result = <<>> <=> sb.products = <<>>)

\* C12 witness: the collaborator answered plain text, an empty list or only
\* an unknown SKU for a non-empty candidate list, and products came back.
C12_Witness ==
    /\ sb.pc = "done" /\ sb.products # <<>> /\ sb.result # <<>>
    /\ sb.reply.kind = "list" /\ sb.reply.skus = <<UNKNOWN_SKU>>

\* C13: every product returned is a candidate; the products returned are
\* those of the emitted SKUs that some candidate has, in the emitted order;
\* and when there is none (or the collaborator fails) they are the first 5
\* candidates.
C13_SelectionWithinInput ==
    sb.pc = "done" =>
      LET skus == {sb.products[i].sku : i \in 1..Len(sb.products)}
          known == SelectSeq(sb.reply.skus, LAMBDA sku : sku \in skus)
      IN  /\ \A i \in 1..Len(sb.result) :
               \E j \in 1..Len(sb.products) : sb.result[i] = sb.products[j]
          /\ known # <<>> =>
               /\ Len(sb.result) = Len(known)
               /\ \A i \in 1..Len(known) : sb.result[i].sku = known[i]
          /\ known = <<>> =>
               /\ Len(sb.result) = (IF Len(sb.products) < 5 THEN Len(sb.products) ELSE 5)
               /\ \A i \in 1..Len(sb.result) : sb.result[i] = sb.products[i]

\* C13 witness: the collaborator named a candidate after an unknown SKU and
\* before an earlier candidate; the two candidates came back in its order.
C13_Witness ==
    /\ sb.pc = "done"
    /\ sb.reply.skus = <<UNKNOWN_SKU, "43", "41">>
    /\ Len(sb.result) = 2
    /\ sb.result[1].sku = "43" /\ sb.result[2].sku = "41"

\* C14: for a candidate list of at least 3 products the result has 3 to 5
\* products.
C14_SelectionLength ==
    (sb.pc = "done" /\ Len(sb.products) >= 3) =>
      (Len(sb.result) >= 3 /\ Len(sb.result) <= 5)

\* C15: the build presentation is invoked, and products are returned on the
\* selection path, only when no category is missing, the selection covers
\* exactly the required categories (6, or 9 with peripherals) and each has
\* the product fetched for its SKU; a selection with fewer or other keys,
\* or with an unresolved SKU, ends as 'not assembled' with no product and
\* no build presentation.
C15_BuildComplete ==
    LET required == Range(RequiredCategories(pb.include_peripherals))
        presented == "generate_pc_build_response" \in pb.calls
        selected == "select_pc_components" \in pb.calls
    IN  /\ (presented \/ (selected /\ pb.products # <<>>)) =>
              /\ pb.pc = "done" /\ pb.missing = <<>>
              /\ Range(pb.reply.keys) = required
              /\ Len(pb.details) = Cardinality(required)
              /\ Cardinality(required) = (IF pb.include_peripherals THEN 9 ELSE 6)
              /\ {pb.details[i].category : i \in 1..Len(pb.details)} = required
              /\ \A i \in 1..Len(pb.details) :
                   /\ pb.details[i].product.sku = pb.fetched[i].sku
                   /\ pb.details[i].category = pb.fetched[i].category
              /\ pb.products = [i \in 1..Len(pb.details) |-> pb.details[i].product]
        /\ (pb.pc = "done" /\ selected
              /\ (Range(pb.reply.keys) # required \/ pb.errors # <<>>)) =>
              /\ pb.response_text = T_BUILD_INVALID
              /\ pb.products = <<>>
              /\ ~presented

\* C15 witness: a build with peripherals was presented with its 9 products.
C15_Witness ==
    /\ pb.pc = "done" /\ pb.include_peripherals
    /\ "generate_pc_build_response" \in pb.calls
    /\ Len(pb.products) = 9

\* C16: a presented build requested with a budget costs at most 1.10 times
\* the budget.
C16_BudgetCeiling ==
    \A budget \in pb.budget :
        "generate_pc_build_response" \in pb.calls =>
            10 * SumCredit(pb.products) <= 11 * budget

\* C17 as stated: every SKU of the collaborator's selection is fetched from
\* the catalog.
C17_EverySkuFetched ==
    (pb.pc = "done" /\ pb.reply.kind = "object") =>
      \A c \in Range(pb.reply.keys) \cap Range(pb.required) :
          \E i \in 1..Len(pb.fetched) : pb.fetched[i].category = c

\* C17 amended: when the selection has exactly the required categories,
\* every one of its SKUs is fetched from the catalog, and a product is
\* taken only if its SKU is the one fetched; if any SKU does not resolve,
\* and also when the selection has other keys (then nothing is fetched),
\* the reply is 'not assembled' (not a missing-category reply), no build
\* presentation is generated and no product is returned.
C17_Revalidation ==
    /\ T_BUILD_INVALID \notin {T_BUILD_MISSING, T_BUILD_UNAVAILABLE, T_GENERATED}
    /\ \A i \in 1..Len(pb.details) :
         \E j \in 1..Len(pb.fetched) :
            /\ pb.fetched[j].category = pb.details[i].category
            /\ pb.fetched[j].sku = pb.details[i].product.sku
    /\ (pb.pc = "done" /\ "select_pc_components" \in pb.calls) =>
         /\ Range(pb.reply.keys) = Range(pb.required) =>
              [i \in 1..Len(pb.fetched) |-> pb.fetched[i].category] = pb.required
         /\ Range(pb.reply.keys) # Range(pb.required) => pb.fetched = <<>>
         /\ (pb.errors # <<>> \/ Range(pb.reply.keys) # Range(pb.required)) =>
              /\ pb.response_text = T_BUILD_INVALID
              /\ "generate_pc_build_response" \notin pb.calls
              /\ pb.products = <<>>

\* C17 witness: of 6 SKUs fetched some resolved and one did not; nothing
\* was presented or returned.
C17_Witness ==
    /\ pb.pc = "done"
    /\ Len(pb.fetched) = 6 /\ Len(pb.errors) = 1 /\ Len(pb.details) = 5
    /\ pb.response_text = T_BUILD_INVALID /\ pb.products = <<>>

\* C18: a message holding 'sku', optional ':' or whitespace and a run of
\* digits, in any letter case, is answered without the classifier: the
\* intent is product_search, the search term is exactly that digit run, the
\* catalog is asked for that exact SKU and for nothing else, whatever other
\* words the message has; the returned list holds at most one product and
\* its SKU is the term.
C18_Answered == ps.pc = "done" /\ ForcedSku(ps.user_message) # <<>>

C18_Bypass ==
    C18_Answered =>
        /\ \A i \in 1..Len(ps.calls) :
              ps.calls[i].fn \notin {"analyze_query", "search_with_fallback"}
        /\ ps.intent = "product_search"
        /\ ps.search_query = Join(ForcedSku(ps.user_message))
        /\ \A i \in 1..Len(ForcedSku(ps.user_message)) :
              IsDigit(ForcedSku(ps.user_message)[i])
        /\ Len(SelectSeq(ps.calls, LAMBDA c : c.fn = "get_by_sku")) = 1
        /\ \A i \in 1..Len(ps.calls) :
              ps.calls[i].fn = "get_by_sku" => ps.calls[i].arg = ps.search_query
        /\ \A i \in 1..Len(ps.products) : ps.products[i].sku = ps.search_query

C18_SkuShortCircuit ==
    /\ C18_Bypass
    /\ C18_Answered => Len(ps.products) <= 1

C20_ReturnedInStock ==
    \A i \in 1..Len(pb.products) :
        pb.products[i].stock > 0 /\ pb.products[i].credit \in Nat

\* C21: every successful chat_assistant response carries at most 5
\* products, on every intent branch, a completed PC build included.
C21_AtMostFiveProducts == pb.pc = "done" => Len(pb.products) <= 5

\* C22: a request that finds its session not WithManager and is answered
\* on an intent branch has a non-empty reply text and has stored exactly one
\* customer message, before the dispatch, and exactly one bot message,
\* after it.
C22_Dispatched(r) ==
    /\ req[r].pc = "done" /\ req[r].resp.code = 200
    /\ req[r].status # "with_manager"

C22_OneOfEach ==
    /\ \A r \in Reqs :
          /\ req[r].pc = "saved" => req[r].nUser = 1 /\ req[r].nBot = 0
          /\ C22_Dispatched(r) => req[r].nUser = 1 /\ req[r].nBot = 1

C22_OneOfEachStored ==
    [][\A r \in Reqs :
         /\ (req[r].pc \in {"idle", "create"} /\ req'[r].pc = "saved") =>
               \E row \in {messages'[Len(messages')]} :
                  /\ messages' = Append(messages, row)
                  /\ row.is_user /\ row.session = req'[r].session
         /\ (req[r].pc = "saved" /\ req'[r].resp.code = 200) =>
               \E row \in {messages'[Len(messages')]} :
                  /\ messages' = Append(messages, row)
                  /\ ~row.is_user /\ row.sender_type = "bot"
                  /\ row.session = req'[r].session
                  /\ row.message = req'[r].resp.response]_vars

C22_NonEmptyReply ==
    /\ C22_OneOfEach
    /\ \A r \in Reqs : C22_Dispatched(r) => req[r].resp.response # <<>>

\* C23: a request with an empty message and no file, or with a malformed
\* payload (a body that is no JSON, JSON that is no object, a message that
\* is null or no string), is answered success = false with a 4xx status and
\* creates no session, no message and no audit entry.
C23_InputError(slot) ==
    \/ slot.payload \in MalformedPayloads
    \/ slot.payload = "object" /\ slot.message = <<>> /\ ~slot.has_file

C23_NoSideEffects ==
    [][\A r \in Reqs :
         (req[r].pc = "idle" /\ req'[r].pc # "idle" /\ C23_InputError(req'[r])) =>
            /\ req'[r].pc = "done" /\ ~req'[r].resp.success
            /\ req'[r].resp.code \in {400, 500}
            /\ UNCHANGED <<sessions, messages, logs>>]_vars

C23_InputErrorsFailFast ==
    \A r \in Reqs :
        (req[r].pc # "idle" /\ C23_InputError(req[r])) =>
           /\ req[r].pc = "done" /\ ~req[r].resp.success
           /\ req[r].resp.code \in 400..499

\* C24: when the classification backend fails (it raises or times out, or
\* its output is no JSON), analyze_query yields the intent general and the
\* request, its reply generator returning a text, is answered successfully
\* with the general reply, one customer message and one bot message stored.
C24_ClassifierFailed(r) ==
    req[r].pc = "done" /\ req[r].classifier.kind \in {"raises", "text"}

C25_IllTypedClassification(r) ==
    \/ req[r].classifier.kind = "value"
    \/ req[r].classifier.search_query \in {"null", "number"}
    \/ req[r].classifier.build_tier \in {"null", "number"}

C25_FailedOnReading(r) ==
    /\ req[r].pc = "done" /\ req[r].resp.code = 500
    /\ \/ /\ C25_IllTypedClassification(r)
          /\ req[r].calls \ {"analyze_image"} = {"analyze_query"}
       \/ req[r].calls \ {"analyze_image"} =
             {"analyze_query", "get_components_for_build", "select_pc_components"}

C25_NeverInternalError == \A r \in Reqs : ~C25_FailedOnReading(r)

\* C26: a catalog call that fails (timeout, network error, status that is
\* no success, body that is no JSON) makes search return [] and get_by_sku
\* return no product; a product search whose catalog calls fail is answered
\* with the no-products text, a PC build whose catalog calls all fail with
\* the unavailable-category text, both without products and without an
\* exception.
C26_CatalogFailuresNormal ==
    /\ \A response \in LookupResponses :
          ~response.ok =>
             /\ Search(response) = <<>>
             /\ \A sku \in BuildSkus : GetBySku(sku, response) = <<>>
    /\ {r.error : r \in {x \in LookupResponses : ~x.ok}} = ApiErrors
    /\ (ps.pc \notin {"idle", "search"} /\ ps.catalog_error # "") =>
          /\ ps.pc = "done" /\ ps.response_text = T_NO_PRODUCTS
          /\ ps.products = <<>>
          /\ \A i \in 1..Len(ps.calls) :
                ps.calls[i].fn \in {"analyze_query", "get_by_sku",
                                    "search_with_fallback"}
    /\ (pb.catalog_down /\ pb.pc # "fallback") =>
          /\ pb.pc = "done" /\ pb.missing = pb.required
          /\ pb.catalog_error # "" =>
                /\ pb.response_text = T_BUILD_UNAVAILABLE
                /\ pb.products = <<>>
                /\ pb.calls = {"get_components_for_build", "search"}

\* C26 witness: a direct SKU request was answered 'no products' after the
\* lookup timed out
C26_Witness ==
    /\ ps.pc = "done" /\ ps.forced_sku # "" /\ ps.catalog_error = "timeout"
    /\ ps.response_text = T_NO_PRODUCTS

\* C26 witness: a PC build with the catalog down was answered 'category
\* unavailable'
C26_WitnessBuild ==
    /\ pb.pc = "done" /\ pb.catalog_down /\ pb.catalog_error = "body"
    /\ pb.response_text = T_BUILD_UNAVAILABLE

C28_HandoffRejected ==
    [][/\ \A session_id \in HandoffIds :
            RequestManagerGet(session_id) =>
               /\ session_id = None => hand'.code = 400
               /\ (session_id # None /\ PksOf(session_id) = {}) =>
                     hand'.code = 404
               /\ hand'.code \in {400, 404} =>
                     /\ hand'.pc = "idle" /\ hand'.session = 0
                     /\ UNCHANGED <<sessions, messages, logs>>
       /\ hand' # hand => Len(sessions') = Len(sessions)]_vars

\* C28 witness: a handoff request named a session that does not exist while
\* another session does, and was answered 404.
C28_Witness ==
    /\ hand.pc = "idle" /\ hand.code = 404 /\ hand.n >= 1
    /\ sessions # <<>>

\* C29: under every interleaving of chat requests, handoff requests and
\* agent messages, each step leaves the stored messages as they are or
\* appends one message after them (none is lost, changed, removed or
\* reordered); a request stores its customer message before its bot
\* message; and every request answered by the bot has stored exactly one
\* customer message and one bot message, all of them in the log of its
\* session.
C29_BotHandled(r) ==
    /\ req[r].pc = "done" /\ req[r].resp.code = 200
    /\ req[r].resp.intent # "with_manager"

C29_Rows(pk, is_user) ==
    Len(SelectSeq(SessionMessages(pk),
                  LAMBDA m : m.is_user = is_user
                             /\ (is_user \/ (m.sender_type = "bot"
                                             /\ m.intent # "manager_handoff"))))

C29_Written(pk, is_user) ==
    LET by == {r \in Reqs : req[r].session = pk}
        n(r) == IF is_user THEN req[r].nUser ELSE req[r].nBot
    IN  IF by = {} THEN 0
        ELSE IF Cardinality(by) = 1 THEN n(CHOOSE r \in by : TRUE)
        ELSE n(1) + n(2)

C29_AppendOnly ==
    /\ [](\A r \in Reqs : C29_BotHandled(r) => req[r].nUser = 1 /\ req[r].nBot = 1)
    /\ [](\A pk \in 1..Len(sessions) :
             /\ C29_Rows(pk, TRUE) = C29_Written(pk, TRUE)
             /\ C29_Rows(pk, FALSE) = C29_Written(pk, FALSE))
    /\ [][/\ Len(messages') \in {Len(messages), Len(messages) + 1}
          /\ SubSeq(messages', 1, Len(messages)) = messages
          /\ \A r \in Reqs :
                req'[r].nBot > req[r].nBot =>
                   /\ req[r].nUser = 1
                   /\ ~messages'[Len(messages')].is_user
                   /\ messages'[Len(messages')].session = req[r].session]_vars

\* C29 witness: two requests on one session were both answered by the bot
\* while a handoff request put its notice between their messages.
C29_Witness ==
    /\ C29_BotHandled(1) /\ C29_BotHandled(2)
    /\ req[1].session = req[2].session
    /\ \E i \in 1..Len(messages) :
          /\ messages[i].intent = "manager_handoff"
          /\ messages[i].session = req[1].session
          /\ 1 < i /\ i < Len(messages)
    /\ Len(SessionMessages(req[1].session)) = 5

\* C30: no step stores a bot message in a session whose status is
\* with_manager, whatever the interleaving of a chat request (which reads
\* the status once, before it answers) with agent pickups and handoff
\* requests.
C30_NoBotWhileWithManager ==
    [][Len(messages') > Len(messages) =>
          LET m == messages'[Len(messages')]
          IN  m.sender_type = "bot" =>
                 sessions'[m.session].status # "with_manager"]_vars

\* C31: a chat request that found no session under its identifier and goes
\* on to create one completes the step with exactly one session under that
\* identifier, is not refused, and has stored its customer message in that
\* session, also when another request created the session meanwhile.
C31_ConcurrentCreate ==
    [][\A r \in Reqs :
         (req[r].pc = "create" /\ req'[r].pc # "create") =>
            /\ Cardinality({pk \in 1..Len(sessions') :
                   sessions'[pk].session_id = req[r].session_id}) = 1
            /\ req'[r].resp.code # 500
            /\ req'[r].nUser = 1
            /\ req'[r].session \in 1..Len(sessions')
            /\ sessions'[req'[r].session].session_id = req[r].session_id]_vars

\* C32: when the selection collaborator raises, answers text that is no
\* JSON, or answers an object that lacks a required category,
\* select_pc_components yields the empty selection; no SKU is fetched, the
\* request ends (it does not raise) with the could-not-assemble reply, no
\* build presentation and no product.
C32_Unusable ==
    /\ "select_pc_components" \in pb.calls
    /\ \/ pb.reply.kind \in {"raises", "text"}
       \/ /\ pb.reply.kind = "object"
          /\ ~(Range(pb.required) \subseteq Range(pb.reply.keys))

C32_SelectionFailureAborts ==
    /\ \A include_peripherals \in BOOLEAN :
         LET required == RequiredCategories(include_peripherals)
         IN  \A reply \in BuildReplies(required) :
                (\/ reply.kind \in {"raises", "text"}
                 \/ ~(Range(required) \subseteq Range(reply.keys))) =>
                   SelectPcComponents(reply, required) = <<>>
    /\ C32_Unusable =>
         /\ pb.selection = <<>> /\ pb.fetched = <<>>
         /\ pb.pc \in {"render", "done"}
         /\ "get_by_sku" \notin pb.calls
         /\ pb.pc = "done" =>
              /\ pb.response_text = T_BUILD_INVALID
              /\ pb.products = <<>>
              /\ "generate_pc_build_response" \notin pb.calls

\* C32 witness: the collaborator answered an object without the first
\* required category and the request ended as could-not-assemble.
C32_Witness ==
    /\ pb.pc = "done" /\ C32_Unusable
    /\ pb.reply.kind = "object" /\ pb.reply.keys # <<>>
    /\ pb.response_text = T_BUILD_INVALID /\ pb.products = <<>>

\* C33: for each required category get_components_for_build asks the
\* catalog inside the category's price window, then, only if that gave no
\* in-stock product, inside the window widened to 0.3 x its lower and 2.5 x
\* its upper bound (which contains the first window), then, only if that
\* gave none either, without a price filter; a category is added to the
\* result exactly when a stage gives an in-stock product, its pool is the
\* in-stock products of that stage, and no stage is asked after it.
C33_Stages ==
    \A include_peripherals \in BOOLEAN, budget \in GcBudgets, tier \in GcTiers :
       \A i \in 1..Len(RequiredCategories(include_peripherals)) :
          LET category_name == RequiredCategories(include_peripherals)[i]
              window == PriceWindow(category_name, budget, tier, include_peripherals)
              first == StageCall(category_name, window, 1)
              second == StageCall(category_name, window, 2)
              third == StageCall(category_name, window, 3)
          IN  /\ first.min_credit = {window[1]} /\ first.max_credit = {window[2]}
              /\ 0 < window[1] /\ window[1] < window[2]
              /\ \A lo \in second.min_credit, hi \in second.max_credit :
                    /\ 10 * lo = 3 * window[1] /\ 2 * hi = 5 * window[2]
                    /\ lo <= window[1] /\ window[2] <= hi
              /\ second.min_credit # {} /\ second.max_credit # {}
              /\ third.min_credit = {} /\ third.max_credit = {}
              /\ {first.category, second.category, third.category} = {category_name}

C33_Asked ==
    gc.pc # "idle" =>
       /\ Len(gc.calls) <= 3
       /\ (gc.pc = "search" /\ gc.stage > 1) => Len(gc.calls) = gc.stage - 1
       /\ \A s \in 1..Len(gc.calls) :
            \E i \in 1..Len(gc.required) :
               gc.calls[s] =
                  StageCall(gc.required[i],
                            PriceWindow(gc.required[i], gc.budget, gc.tier,
                                        gc.include_peripherals), s)
       /\ \A k \in 1..Len(gc.build_products) :
            /\ gc.build_products[k].products # <<>>
            /\ \A j \in 1..Len(gc.build_products[k].products) :
                  gc.build_products[k].products[j].stock > 0
            /\ \A l \in 1..Len(gc.build_products) :
                  gc.build_products[k].category = gc.build_products[l].category
                     => k = l

C33_Step ==
    (gc.pc = "search" /\ gc' # gc) =>
       LET category_name == gc.required[gc.index]
           asked == gc'.calls[Len(gc'.calls)]
           found == gc'.in_stock # <<>>
           moved == gc'.pc = "done" \/ gc'.index = gc.index + 1
           added == /\ Len(gc'.build_products) = Len(gc.build_products) + 1
                    /\ gc'.build_products[Len(gc'.build_products)] =
                          [category |-> category_name, products |-> gc'.in_stock]
       IN  /\ Len(gc'.calls) = gc.stage
           /\ asked = StageCall(category_name,
                                PriceWindow(category_name, gc.budget, gc.tier,
                                            gc.include_peripherals), gc.stage)
           /\ gc.stage > 1 => gc.in_stock = <<>>
           /\ found <=> added
           /\ ~found => gc'.build_products = gc.build_products
           /\ found => moved
           /\ moved <=> (found \/ gc.stage = 3)
           /\ ~moved => gc'.stage = gc.stage + 1 /\ gc'.index = gc.index
           /\ SubSeq(gc'.build_products, 1, Len(gc.build_products))
                 = gc.build_products

C33_ThreeStageRelaxation == [](C33_Stages /\ C33_Asked) /\ [][C33_Step]_vars

\* C33 witness: an invocation ended whose last category was found in stock
\* only by the third stage, after another category was found by no stage.
C33_Witness ==
    /\ gc.pc = "done" /\ Len(gc.calls) = 3 /\ gc.in_stock # <<>>
    /\ gc.build_products # <<>>
    /\ Len(gc.build_products) < Len(gc.required)
    /\ gc.budget # {}

\* C34: of the records of a response, search returns every record that has
\* a SKU and a name, in order, with each numeric field (credit, bonus,
\* stock) that cannot be read as a number set to zero, and drops the
\* records lacking a SKU or a name; the other records of the response are
\* returned whatever one record looks like.
C34_Zeroed(field) == IF Coerces(field) THEN Coerced(field) ELSE 0

C34_KeptOne(p) ==
    IF ~p.object \/ p.sku = "" \/ p.name = "" THEN <<>>
    ELSE <<[sku |-> p.sku, name |-> p.name, credit |-> C34_Zeroed(p.credit),
            bonus |-> C34_Zeroed(p.bonus), stock |-> C34_Zeroed(p.stock)]>>

RECURSIVE C34_Kept(_)
C34_Kept(products) ==
    IF products = <<>> THEN <<>>
    ELSE C34_KeptOne(Head(products)) \o C34_Kept(Tail(products))

C34_RecordValidation ==
    vp.pc = "done" => vp.returned = C34_Kept(vp.products)

\* C35: whichever audit entries the audit table refuses during a chat
\* request, each step of the request does what it does when every entry is
\* written: the same session is found or created, the same messages are
\* stored and the same response is given; the refused entries are missing
\* from the audit table and nothing else differs.
C35_Received ==
    (req[1].pc \in {"idle", "create"} /\ req'[1].pc \notin {"idle", "create"}) =>
       \/ /\ req'[1].message = <<>> /\ ~req'[1].has_file
          /\ req'[1].resp = ErrorResp(400)
          /\ UNCHANGED <<sessions, messages, logs>>
       \/ LET pk == req'[1].session
              found == req[1].pc = "idle" /\ req'[1].session_id # None
                         /\ PksOf(req'[1].session_id) # {}
          IN  /\ pk \in 1..Len(sessions')
              /\ sessions' = IF found THEN sessions
                             ELSE Append(sessions, sessions'[pk])
              /\ sessions'[pk].status = (IF found THEN sessions[pk].status ELSE "active")
              /\ req'[1] = Received(req'[1], pk, sessions'[pk])
              /\ messages' = messages \o ReceivedRows(req'[1], pk, sessions'[pk].status)
              /\ req'[1].resp.code # 500

C35_Replied ==
    (req[1].pc = "saved" /\ req'[1].pc = "done") =>
       \E outcome \in Outcomes(req[1].message) :
          /\ sessions' = sessions
          /\ IF outcome.raised
             THEN req'[1].resp = ErrorResp(500) /\ messages' = messages
             ELSE /\ req'[1].resp = ChatResp(req[1], outcome)
                  /\ messages' = Append(messages,
                        NewMessage(req[1].session, outcome.response_text, FALSE,
                                   "bot", outcome.intent, FALSE))

C35_AuditFailureHarmless ==
    /\ [](\A row \in BagToSet(logs) : row.log_type \notin req[1].failing)
    /\ [][C35_Received /\ C35_Replied]_vars

\* C35 witness: a request that created its session was answered by the bot
\* while every audit entry was refused.
C35_Witness ==
    /\ req[1].pc = "done" /\ req[1].failing = LogTypes
    /\ req[1].resp.code = 200 /\ req[1].resp.success
    /\ req[1].nUser = 1 /\ req[1].nBot = 1
    /\ Len(sessions) = 1 /\ Len(messages) = 2 /\ logs = EmptyBag

\* C36: the product search answers 'no products found' only if no
\* strategy search_with_fallback has for the request would yield a product
\* that is in stock and within the budget.
C36_NoHiddenProducts ==
    (br.pc = "done" /\ br.response_text = T_NO_PRODUCTS) =>
       \A k \in Strategies(br.query, br.category) :
          FilterInStock(BudgetFilter(br.shelf[k], br.budget)) = <<>>

\* C37: in the product search without a direct SKU, every product
\* returned is in stock, and with a budget other than 0 its price is at
\* most the budget, whichever strategy found the candidates and whatever
\* the ranking collaborator answers; a budget of 0 is read as no budget
\* (the products found are not filtered by price).
C37_Returned == {br.products[i] : i \in 1..Len(br.products)}

C37_WithinPositiveBudget ==
    br.pc = "done" =>
       /\ \A p \in C37_Returned : p.stock > 0
       /\ Truthy(br.budget) =>
            \A p \in C37_Returned : \A m \in br.budget : p.credit <= m
       /\ C37_Returned \subseteq {br.found[i] : i \in 1..Len(br.found)}

\* C37 as stated: with a numeric budget every product returned has a price
\* of at most the budget and is in stock.
C37_WithinBudget ==
    (br.pc = "done" /\ br.budget # {}) =>
       \A p \in C37_Returned :
          /\ p.stock > 0
          /\ \A m \in br.budget : p.credit <= m

\* C37 witness: the per-word strategy, which asks without a price cap,
\* found a product over the budget among others; the product within the
\* budget was returned.
C37_Witness ==
    /\ br.pc = "done" /\ br.budget = {100}
    /\ br.trace[Len(br.trace)].call.strategy = 4
    /\ \E i \in 1..Len(br.found) : br.found[i].credit > 100 /\ br.found[i].stock > 0
    /\ br.products = <<P_STOCKED>>

\* C38: in a completed build every required category has the product of
\* its own SKU, fetched for that category, and no SKU stands under two
\* categories.
C38_DistinctComponents ==
    (pb.pc = "done" /\ "generate_pc_build_response" \in pb.calls) =>
       /\ [i \in 1..Len(pb.details) |-> pb.details[i].category] = pb.required
       /\ \A i \in 1..Len(pb.details) :
             pb.details[i].product.sku = pb.fetched[i].sku
       /\ \A i, j \in 1..Len(pb.details) :
             pb.details[i].product.sku = pb.details[j].product.sku => i = j

\* C39: a chat request on a session that is pending_manager or closed is
\* processed as on an active one: the customer message is stored, the
\* reply comes from the same classification and dispatch, one bot message
\* is stored and the status is left as it is; the response differs only in
\* its with_manager flag, which is true for pending_manager.
C39_BotStatuses == {"active", "pending_manager", "closed"}

C39_Counted ==
    \A r \in Reqs :
       (req[r].pc \in {"saved", "done"} /\ req[r].status \in C39_BotStatuses) =>
          /\ req[r].nUser = 1
          /\ (req[r].pc = "done" /\ req[r].resp.code = 200) =>
                /\ req[r].nBot = 1
                /\ req[r].resp.intent # "with_manager"
                /\ req[r].resp.with_manager = (req[r].status = "pending_manager")
                /\ sessions[req[r].session].status = req[r].status

C39_Dispatched ==
    \A r \in Reqs :
       (req[r].pc = "saved" /\ req'[r].pc = "done"
          /\ req[r].status \in C39_BotStatuses) =>
          \E outcome \in Outcomes(req[r].message) :
             /\ sessions' = sessions
             /\ IF outcome.raised
                THEN req'[r].resp = ErrorResp(500) /\ messages' = messages
                ELSE /\ req'[r].resp =
                          [ChatResp([req[r] EXCEPT !.status = "active"], outcome)
                             EXCEPT !.with_manager =
                                       (req[r].status = "pending_manager")]
                     /\ messages' = Append(messages,
                           NewMessage(req[r].session, outcome.response_text,
                                      FALSE, "bot", outcome.intent, FALSE))

C39_PendingHandledAsActive == []C39_Counted /\ [][C39_Dispatched]_vars

\* C39 witness: a request on a pending_manager session was answered by the
\* bot with products and the flag set.
C39_Witness ==
    /\ req[1].pc = "done" /\ req[1].status = "pending_manager"
    /\ req[1].resp.code = 200 /\ req[1].resp.with_manager
    /\ req[1].resp.intent = "product_search" /\ req[1].resp.products > 0
    /\ req[1].nUser = 1 /\ req[1].nBot = 1
    /\ sessions[req[1].session].status = "pending_manager"

\* C40: search_with_fallback issues at most 3 + k catalog calls for a
\* query of k words, and no two of its calls that found nothing have the
\* same parameters.
C40_Params(entry) ==
    <<entry.call.query, entry.call.category, entry.call.max_credit>>

C40_CallBound == Len(sf.trace) <= 3 + Len(Split(sf.query))

C40_NoRepeat ==
    \A i, j \in 1..Len(sf.trace) :
       (i < j /\ sf.trace[i].products = <<>> /\ sf.trace[j].products = <<>>) =>
          C40_Params(sf.trace[i]) # C40_Params(sf.trace[j])

C40_BoundedDistinctCalls == C40_CallBound /\ C40_NoRepeat

====
